---- MODULE Spec2Model ----
(***************************************************************************)
(* cli-kit (cli-primer): the dictionary-driven argument / configuration    *)
(* resolution pipeline.                                                   *)
(*                                                                         *)
(* Strings are sequences of one-character strings, so that the text        *)
(* operations of the code (String.replace, String.split, RegExp.source     *)
(* introspection, String.trim) are computed and not assumed.  A regular    *)
(* expression payload is the family the package documents and uses:        *)
(*     ^--(n1|n2|...)            one group  (a flag)                        *)
(*     ^--(n1|n2|...)=(v1|...)   two groups (a valued argument)             *)
(* with or without a trailing $.  An alternative is a literal text or one  *)
(* of the atoms \w+  .+  .*  which the source text holds as one symbol.    *)
(***************************************************************************)
EXTENDS Integers, Sequences, FiniteSets, TLC

VARIABLES
    dictionary,   \* the argsDictionary shared by parser and config reader
    args,         \* process.argv.slice(2)
    argIdx,       \* getArguments: number of tokens consumed by the for loop
    argValues,    \* getArguments: the local argValues object
    argPc,        \* getArguments: "loop" | "returned" | "null"
    argEvents,    \* getArguments: events sent to the monitoring function
    sources,      \* wrapAndRun: the four data sets handed to mergeData
    mergedData,   \* wrapAndRun: what mergeData returned
    mergePc,      \* "sources" | "merged"
    cfgFile,      \* the configuration file on disk
    cfgProfile,   \* getConfigData: the profileName argument
    cfgReturn,    \* getConfigData: the value returned
    cfgEvents,    \* getConfigData: events sent to the monitoring function
    cfgPc,        \* "idle" | "done"
    cfgDir,       \* the directory of the configuration file
    initArgs,     \* initializeConfig: template, templateData and filePath
    initLog,      \* initializeConfig: per call, the file left, the events, a throw
    setup,        \* wrapAndRun: the flags of finalSetupData
    runPc,        \* wrapAndRun: the numbered step about to run
    cmdArgs,      \* wrapAndRun: what getArguments returned
    promise,      \* the promise wrapAndRun returned
    mainFn,       \* what the application's mainFn does when called
    mainCalls,    \* the inputData of each call of mainFn
    runEvents,    \* wrapAndRun: events sent to the monitoring function
    lockFile,     \* the session lock of the output directory is in place
    outputDir,    \* what the path given as output_dir is on disk
    procs,        \* the processes running wrapAndRun on one output directory
    rm,           \* removeFolderContents: the folder, the deletions, the events
    helpCall      \* getHelp: the text returned and the events

argVars == <<args, argIdx, argValues, argPc, argEvents>>
mergeVars == <<sources, mergedData, mergePc>>
cfgVars == <<cfgFile, cfgProfile, cfgReturn, cfgEvents, cfgPc>>

initVars == <<cfgDir, initArgs, initLog>>
runVars ==
    <<setup, runPc, cmdArgs, promise, mainFn, mainCalls, runEvents, lockFile, outputDir>>

otherVars == <<procs, rm, helpCall>>

vars == <<dictionary, argVars, mergeVars, cfgVars, initVars, runVars, otherVars>>

----------------------------------------------------------------------------
(* Characters and strings *)

\* Characters that \W matches among the characters the model writes.
NonWordChars == {"-", "=", " ", "|", "(", ")", "^", "$", "\\w+", ".+", ".*"}

IsWordChar(c) == c \notin NonWordChars

\* The three atoms a group may hold instead of a literal text.
AtomWord == "\\w+"
AtomAny1 == ".+"
AtomAny0 == ".*"
Atoms == {AtomWord, AtomAny1, AtomAny0}

IsPrefix(p, s) == Len(p) <= Len(s) /\ SubSeq(s, 1, Len(p)) = p

Drop(s, n) == SubSeq(s, n + 1, Len(s))

SetMin(S) == CHOOSE x \in S : \A y \in S : x <= y

\* arg.replace(/^\W*/, ""): the token without its leading non-word characters.
RECURSIVE StripNonWordPrefix(_)
StripNonWordPrefix(s) ==
    IF s = <<>> THEN <<>>
    ELSE IF IsWordChar(Head(s)) THEN s
    ELSE StripNonWordPrefix(Tail(s))

\* String.prototype.split(sep) for a one-character separator.
RECURSIVE SplitAcc(_, _, _)
SplitAcc(s, sep, cur) ==
    IF s = <<>> THEN <<cur>>
    ELSE IF Head(s) = sep THEN <<cur>> \o SplitAcc(Tail(s), sep, <<>>)
    ELSE SplitAcc(Tail(s), sep, Append(cur, Head(s)))

Split(s, sep) == SplitAcc(s, sep, <<>>)

\* Array.prototype.join(sep) on texts.
RECURSIVE Join(_, _)
Join(parts, sep) ==
    IF parts = <<>> THEN <<>>
    ELSE IF Len(parts) = 1 THEN parts[1]
    ELSE parts[1] \o <<sep>> \o Join(Tail(parts), sep)

\* String.prototype.trim() === "": only white space.
IsBlank(s) == \A i \in 1..Len(s) : s[i] = " "

----------------------------------------------------------------------------
(* Payloads *)

StringPayload(text) ==
    [type |-> "string", text |-> text, names |-> <<>>, hasValue |-> FALSE,
     values |-> <<>>, anchored |-> FALSE]

RegExpPayload(names, hasValue, values, anchored) ==
    [type |-> "regexp", text |-> <<>>, names |-> names, hasValue |-> hasValue,
     values |-> values, anchored |-> anchored]

\* RegExp.prototype.source: the text of the pattern.
Source(payload) ==
    <<"^", "-", "-", "(">> \o Join(payload.names, "|") \o <<")">>
    \o (IF payload.hasValue
        THEN <<"=", "(">> \o Join(payload.values, "|") \o <<")">>
        ELSE <<>>)
    \o (IF payload.anchored THEN <<"$">> ELSE <<>>)

\* src.match(/\(([^\)]+)\)/): the leftmost "(" followed by one or more
\* characters other than ")" and a ")".  text is the group's text (match[1])
\* and end the index of its ")".
FirstGroupMatch(src) ==
    LET starts == {i \in 1..Len(src) :
                      /\ src[i] = "("
                      /\ i + 1 <= Len(src)
                      /\ src[i + 1] # ")"
                      /\ \E j \in (i + 2)..Len(src) : src[j] = ")"}
    IN IF starts = {} THEN [found |-> FALSE, text |-> <<>>, end |-> 0]
       ELSE LET i == SetMin(starts)
                j == SetMin({k \in (i + 2)..Len(src) : src[k] = ")"})
            IN [found |-> TRUE, text |-> SubSeq(src, i + 1, j - 1), end |-> j]

----------------------------------------------------------------------------
(* The regular-expression engine: String.prototype.match(RegExp) *)

\* Length of the longest run of word characters at the start of s.
RECURSIVE WordRun(_)
WordRun(s) ==
    IF s = <<>> \/ ~IsWordChar(Head(s)) THEN 0 ELSE 1 + WordRun(Tail(s))

\* n, n-1, ..., lo  (a greedy quantifier gives back one character at a time).
RECURSIVE DownTo(_, _)
DownTo(n, lo) == IF n < lo THEN <<>> ELSE <<n>> \o DownTo(n - 1, lo)

\* The lengths one alternative can capture at the start of s, in the order
\* backtracking tries them.
AltCaptures(alt, s) ==
    IF alt = <<AtomWord>> THEN DownTo(WordRun(s), 1)
    ELSE IF alt = <<AtomAny1>> THEN DownTo(Len(s), 1)
    ELSE IF alt = <<AtomAny0>> THEN DownTo(Len(s), 0)
    ELSE IF IsPrefix(alt, s) THEN <<Len(alt)>> ELSE <<>>

\* The same for a group: its alternatives are tried left to right.
RECURSIVE GroupCaptures(_, _)
GroupCaptures(alts, s) ==
    IF alts = <<>> THEN <<>>
    ELSE AltCaptures(Head(alts), s) \o GroupCaptures(Tail(alts), s)

NoMatch == [matched |-> FALSE, g1 |-> <<>>, hasG2 |-> FALSE, g2 |-> <<>>]

\* The first of the capture lengths caps with which the value group reaches
\* the end of r2 (any of them when the pattern has no $), or -1.
ValueCapture(payload, r2, caps) ==
    IF \E k \in 1..Len(caps) : ~payload.anchored \/ caps[k] = Len(r2)
    THEN caps[SetMin({k \in 1..Len(caps) : ~payload.anchored \/ caps[k] = Len(r2)})]
    ELSE -1

TailOf(r2, len) ==
    IF len = -1 THEN [ok |-> FALSE, g2 |-> <<>>]
    ELSE [ok |-> TRUE, g2 |-> SubSeq(r2, 1, len)]

\* What follows the first group: nothing, or "=" and the value group.
TailMatch(payload, rest) ==
    IF ~payload.hasValue
    THEN IF payload.anchored /\ rest # <<>>
         THEN [ok |-> FALSE, g2 |-> <<>>]
         ELSE [ok |-> TRUE, g2 |-> <<>>]
    ELSE IF rest = <<>> \/ Head(rest) # "="
    THEN [ok |-> FALSE, g2 |-> <<>>]
    ELSE TailOf(Tail(rest),
                ValueCapture(payload, Tail(rest),
                             GroupCaptures(payload.values, Tail(rest))))

\* The first of the capture lengths caps of the first group after which the
\* rest of the pattern matches, or -1.
NameCapture(payload, s, caps) ==
    IF \E k \in 1..Len(caps) : TailMatch(payload, Drop(s, caps[k])).ok
    THEN caps[SetMin({k \in 1..Len(caps) : TailMatch(payload, Drop(s, caps[k])).ok})]
    ELSE -1

MatchOf(payload, s, len) ==
    IF len = -1 THEN NoMatch
    ELSE [matched |-> TRUE,
          g1 |-> SubSeq(s, 1, len),
          hasG2 |-> payload.hasValue,
          g2 |-> TailMatch(payload, Drop(s, len)).g2]

\* token.match(payload) for a RegExp payload: the match array, or no match.
RegExpMatch(payload, token) ==
    IF ~IsPrefix(<<"-", "-">>, token) THEN NoMatch
    ELSE MatchOf(payload, Drop(token, 2),
                 NameCapture(payload, Drop(token, 2),
                             GroupCaptures(payload.names, Drop(token, 2))))

----------------------------------------------------------------------------
(* Values, mappings and monitoring events *)

\* A value of a settings mapping: the boolean true or a text.
TrueValue == [t |-> "true", s |-> <<>>]
StrValue(s) == [t |-> "string", s |-> s]

EmptyMap == [k \in {} |-> TrueValue]

\* obj[key] = value
Put(obj, key, value) ==
    [k \in (DOMAIN obj) \cup {key} |-> IF k = key THEN value ELSE obj[k]]

\* One call of the monitoring function: {type, message}; subject is the
\* text the message is about.
Event(type, message, subject) ==
    [type |-> type, message |-> message, subject |-> subject]

NullResult == [null |-> TRUE, map |-> EmptyMap]
MapResult(m) == [null |-> FALSE, map |-> m]

\* The parts of the state an operation that is not running leaves alone.
ArgsIdle ==
    /\ args = <<>>
    /\ argIdx = 0
    /\ argValues = EmptyMap
    /\ argPc = "off"
    /\ argEvents = <<>>

MergeIdle ==
    /\ sources = <<>>
    /\ mergedData = EmptyMap
    /\ mergePc = "off"

CfgIdle ==
    /\ cfgFile = [kind |-> "ENOENT", doc |-> <<>>]
    /\ cfgProfile = ""
    /\ cfgReturn = NullResult
    /\ cfgEvents = <<>>
    /\ cfgPc = "off"

InitIdle ==
    /\ cfgDir = "present"
    /\ initArgs = <<>>
    /\ initLog = <<>>

RunIdle ==
    /\ setup = <<>>
    /\ runPc = "off"
    /\ cmdArgs = NullResult
    /\ promise = [state |-> "pending", value |-> 0]
    /\ mainFn = <<>>
    /\ mainCalls = <<>>
    /\ runEvents = <<>>
    /\ lockFile = FALSE
    /\ outputDir = "directory"

OtherIdle ==
    /\ procs = <<>>
    /\ rm = <<>>
    /\ helpCall = <<>>

----------------------------------------------------------------------------
(* Descriptors, dictionaries and command lines the model runs on *)

Descriptor(name, payload, mandatory) ==
    [name |-> name, payload |-> payload, mandatory |-> mandatory]

tDry == <<"d", "r", "y">>
tVer == <<"v", "e", "r">>
tV == <<"v">>
tHome == <<"h", "o", "m", "e">>
tModel == <<"m", "o", "d", "e", "l">>
tSaas == <<"s", "a", "a", "s">>
tRaw == <<"r", "a", "w">>
tNote == <<"n", "o", "t", "e">>
tZz == <<"z", "z">>
tX == <<"x">>

Dashed(s) == <<"-", "-">> \o s
Assign(k, v) == Dashed(k) \o <<"=">> \o v

\* { payload: '--dry' }
dDry == Descriptor("Dry Run", StringPayload(Dashed(tDry)), FALSE)
\* { payload: /^--(ver|v)$/ }
dVer == Descriptor("Version", RegExpPayload(<<tVer, tV>>, FALSE, <<>>, TRUE), FALSE)
\* { payload: /^--(home)=(.+)$/ }
dHome ==
    Descriptor("Home Directory",
               RegExpPayload(<<tHome>>, TRUE, <<(<<AtomAny1>>)>>, TRUE), FALSE)
\* { payload: /^--(model)=(saas|raw)$/ }
dModel ==
    Descriptor("Parse Model",
               RegExpPayload(<<tModel>>, TRUE, <<tSaas, tRaw>>, TRUE), FALSE)
\* { payload: /^--(\w+)$/ }
dAny == Descriptor("Any Flag", RegExpPayload(<<(<<AtomWord>>)>>, FALSE, <<>>, TRUE), FALSE)
\* { payload: /^--(note)=(.*)$/ }
dNote ==
    Descriptor("Note",
               RegExpPayload(<<tNote>>, TRUE, <<(<<AtomAny0>>)>>, TRUE), FALSE)
\* { payload: /^--(ver|v)/ } and { payload: /^--(home)=(.+)/ }, as documented
dVerOpen == Descriptor("Version", RegExpPayload(<<tVer, tV>>, FALSE, <<>>, FALSE), FALSE)
dHomeOpen ==
    Descriptor("Home Directory",
               RegExpPayload(<<tHome>>, TRUE, <<(<<AtomAny1>>)>>, FALSE), FALSE)

Dictionaries ==
    { <<>>,
      <<dDry, dVer, dHome, dModel>>,
      <<dVer, dAny>>,
      <<dAny, dVer>>,
      <<dNote, dDry>>,
      <<dVerOpen, dHomeOpen>> }

Tokens ==
    { <<>>, Dashed(tDry), Dashed(tVer), Dashed(tV), Dashed(tZz),
      Assign(tHome, tX), Assign(tModel, tRaw), Assign(tNote, <<>>) }

\* Longest command line.
MaxArgs == 3

RECURSIVE SeqsUpTo(_, _)
SeqsUpTo(S, n) ==
    IF n = 0 THEN {<<>>}
    ELSE LET shorter == SeqsUpTo(S, n - 1)
         IN shorter \cup {Append(q, x) : q \in shorter, x \in S}

CommandLines == SeqsUpTo(Tokens, MaxArgs)

----------------------------------------------------------------------------
(* getArguments *)

NoLookup == [matched |-> FALSE, key |-> <<>>, value |-> TrueValue]

\* The slip of keeping the text the first group captured.
ArgNameCaptured(payload, m) == m.g1

\* argName for a RegExp payload that matched with the match array m.
ArgName(payload, m) ==
    IF FirstGroupMatch(Source(payload)).text # <<>>
    THEN Head(Split(FirstGroupMatch(Source(payload)).text, "|"))
    ELSE m.g1

\* match[2] || true
ArgValue(m) == IF m.hasG2 /\ m.g2 # <<>> THEN StrValue(m.g2) ELSE TrueValue

\* if (match) { ... argValues[argName] = match[2] || true; matched = true }
RegExpLookup(payload, m) ==
    IF m.matched
    THEN [matched |-> TRUE, key |-> ArgName(payload, m), value |-> ArgValue(m)]
    ELSE NoLookup

\* One pass of the inner loop body for one payload: whether arg matches it,
\* and the key and the value it is then stored with.
PayloadLookup(payload, arg) ==
    IF payload.type = "string"
    THEN IF arg = payload.text
         THEN [matched |-> TRUE, key |-> StripNonWordPrefix(arg), value |-> TrueValue]
         ELSE NoLookup
    ELSE IF payload.type = "regexp"
    THEN RegExpLookup(payload, RegExpMatch(payload, arg))
    ELSE NoLookup

\* The inner loop: the first payload of the dictionary, from the i-th on,
\* that matches arg.
RECURSIVE LookupFrom(_, _, _)
LookupFrom(dict, arg, i) ==
    IF i > Len(dict) THEN NoLookup
    ELSE IF PayloadLookup(dict[i].payload, arg).matched
    THEN PayloadLookup(dict[i].payload, arg)
    ELSE LookupFrom(dict, arg, i + 1)

ArgLookup(dict, arg) == LookupFrom(dict, arg, 1)

ArgsInit ==
    /\ dictionary \in Dictionaries
    /\ args \in CommandLines
    /\ argIdx = 0
    /\ argValues = EmptyMap
    /\ argPc = "loop"
    /\ argEvents = <<>>
    /\ MergeIdle
    /\ CfgIdle
    /\ InitIdle
    /\ RunIdle
    /\ OtherIdle

\* for (const arg of args) with a falsy arg: nothing happens
GetArgumentsSkip ==
    /\ argPc = "loop"
    /\ argIdx < Len(args)
    /\ args[argIdx + 1] = <<>>
    /\ argIdx' = argIdx + 1
    /\ UNCHANGED <<dictionary, args, argValues, argPc, argEvents, mergeVars, cfgVars, initVars, runVars, otherVars>>

\* ... with an arg some payload matches: argValues[key] = value
GetArgumentsStore ==
    /\ argPc = "loop"
    /\ argIdx < Len(args)
    /\ args[argIdx + 1] # <<>>
    /\ \E hit \in {ArgLookup(dictionary, args[argIdx + 1])} :
          /\ hit.matched
          /\ argValues' = Put(argValues, hit.key, hit.value)
    /\ argIdx' = argIdx + 1
    /\ UNCHANGED <<dictionary, args, argPc, argEvents, mergeVars, cfgVars, initVars, runVars, otherVars>>

\* The slip of skipping an arg no payload matches.
GetArgumentsUnknownSkipped ==
    /\ argPc = "loop"
    /\ argIdx < Len(args)
    /\ args[argIdx + 1] # <<>>
    /\ ~ArgLookup(dictionary, args[argIdx + 1]).matched
    /\ argIdx' = argIdx + 1
    /\ UNCHANGED <<dictionary, args, argValues, argPc, argEvents, mergeVars, cfgVars, initVars, runVars, otherVars>>

\* ... with an arg no payload matches: report and return null
GetArgumentsUnknown ==
    /\ argPc = "loop"
    /\ argIdx < Len(args)
    /\ args[argIdx + 1] # <<>>
    /\ ~ArgLookup(dictionary, args[argIdx + 1]).matched
    /\ argEvents' = Append(argEvents, Event("error", "Unknown argument", args[argIdx + 1]))
    /\ argPc' = "null"
    /\ UNCHANGED <<dictionary, args, argIdx, argValues, mergeVars, cfgVars, initVars, runVars, otherVars>>

\* return argValues
GetArgumentsReturn ==
    /\ argPc = "loop"
    /\ argIdx = Len(args)
    /\ argPc' = "returned"
    /\ UNCHANGED <<dictionary, args, argIdx, argValues, argEvents, mergeVars, cfgVars, initVars, runVars, otherVars>>

ArgsNext ==
    \/ GetArgumentsSkip
    \/ GetArgumentsStore
    \/ GetArgumentsUnknown
    \/ GetArgumentsReturn

SpecArgs == ArgsInit /\ [][ArgsNext]_vars

----------------------------------------------------------------------------
(* What the documentation promises about one token, stated on the pattern   *)
(* itself and not on its source text                                        *)

\* The value getArguments has returned.
ArgsResult == IF argPc = "null" THEN NullResult ELSE MapResult(argValues)

\* The payload matches the token.
Matches(payload, tok) ==
    \/ payload.type = "string" /\ tok = payload.text
    \/ payload.type = "regexp" /\ RegExpMatch(payload, tok).matched

Recognized(dict, tok) == \E i \in 1..Len(dict) : Matches(dict[i].payload, tok)

\* The payload of the first descriptor of the dictionary that matches tok.
MatchingPayload(dict, tok) ==
    dict[SetMin({i \in 1..Len(dict) : Matches(dict[i].payload, tok)})].payload

\* The first group lists literal aliases (no atom).
ListsAliases(payload) ==
    /\ payload.type = "regexp"
    /\ \A i \in 1..Len(payload.names) :
          \A j \in 1..Len(payload.names[i]) : payload.names[i][j] \notin Atoms

\* The canonical key: the literal without its dashes, the first listed alias,
\* or, for a group that lists no aliases, the text the group captured.
CanonicalKey(payload, tok) ==
    IF payload.type = "string" THEN Drop(payload.text, 2)
    ELSE IF ListsAliases(payload) THEN payload.names[1]
    ELSE RegExpMatch(payload, tok).g1

\* The value: true for a flag, the text of the second group otherwise.
CanonicalValue(payload, tok) ==
    IF payload.type = "regexp" /\ payload.hasValue
    THEN StrValue(RegExpMatch(payload, tok).g2)
    ELSE TrueValue

\* The tokens the loop has consumed and stored.
Stored == {i \in 1..argIdx : args[i] # <<>>}

\* The token the loop stored last, when its last step was a store.
JustStored == argPc = "loop" /\ argIdx >= 1 /\ args[argIdx] # <<>>

\* C1: when every non-empty token matches some descriptor, getArguments
\* does not return null; and every token stored by a literal or by a pattern
\* that lists aliases is stored under the first listed alias (the literal
\* without its dashes), never under the alias the token used.
C1_TotalAndCanonical ==
    /\ (\A i \in 1..Len(args) : args[i] # <<>> => Recognized(dictionary, args[i]))
          => argPc # "null"
    /\ \A i \in Stored :
          LET p == MatchingPayload(dictionary, args[i])
          IN (p.type = "string" \/ ListsAliases(p))
                => CanonicalKey(p, args[i]) \in DOMAIN argValues
    /\ (\A i \in Stored :
           LET p == MatchingPayload(dictionary, args[i])
           IN p.type = "string" \/ ListsAliases(p))
          => DOMAIN argValues =
                {CanonicalKey(MatchingPayload(dictionary, args[i]), args[i]) : i \in Stored}

\* C1 witness: --v was given with /^--(ver|v)$/ and the returned mapping has
\* ver and not v.
C1_Witness ==
    /\ argPc = "returned"
    /\ \E i \in 1..Len(args) :
          args[i] = Dashed(tV) /\ MatchingPayload(dictionary, args[i]) = dVer.payload
    /\ tVer \in DOMAIN argValues
    /\ tV \notin DOMAIN argValues

\* The tokens no descriptor matches.
Unrecognized == {i \in 1..Len(args) : ~Recognized(dictionary, args[i])}

\* C2 as written: with exactly one token matched by no descriptor,
\* getArguments never returns a mapping, and when it has returned null it
\* has reported exactly one error.
C2_Original ==
    Cardinality(Unrecognized) = 1
       => /\ argPc # "returned"
          /\ argPc = "null" => Len(argEvents) = 1

\* C2 amended: with exactly one NON-EMPTY token matched by no descriptor, at
\* whatever position, getArguments never returns a mapping; when it returns
\* it returns null, exposing no key, after exactly one error event, about
\* that token.
C2_OneUnknownTokenIsFatal ==
    LET bad == {i \in Unrecognized : args[i] # <<>>}
    IN Cardinality(bad) = 1
          => /\ argPc # "returned"
             /\ argPc = "null"
                   => /\ ArgsResult = NullResult
                      /\ Len(argEvents) = 1
                      /\ argEvents[1].type = "error"
                      /\ \A i \in bad : argEvents[1].subject = args[i]
             /\ argPc # "null" => argEvents = <<>>

\* C2 witness: a three-token command line whose middle token is the unknown
\* one, the first token was stored, and null was returned.
C2_Witness ==
    /\ Len(args) = 3
    /\ Unrecognized = {2}
    /\ args[2] # <<>>
    /\ argPc = "null"
    /\ argValues # EmptyMap

\* C3: right after a token is stored, the value under its canonical key is
\* true for a literal or a one-group pattern and the text captured by the
\* second group for a two-group pattern, the empty capture included.
C3_StoredValue ==
    JustStored =>
        LET p == MatchingPayload(dictionary, args[argIdx])
            k == CanonicalKey(p, args[argIdx])
        IN (p.type = "string" \/ ListsAliases(p))
              => k \in DOMAIN argValues
                 /\ argValues[k] = CanonicalValue(p, args[argIdx])

\* C4: right after a token is stored by a one-group pattern whose group lists
\* no aliases, the key is the text the group captured from the token.
C4_CapturedKey ==
    JustStored =>
        LET p == MatchingPayload(dictionary, args[argIdx])
        IN (p.type = "regexp" /\ ~p.hasValue /\ ~ListsAliases(p))
              => RegExpMatch(p, args[argIdx]).g1 \in DOMAIN argValues

----------------------------------------------------------------------------
(* mergeData, as wrapAndRun calls it *)

\* { ...x }: spreading null gives no key.
Spread(x) == IF x.null THEN EmptyMap ELSE x.map

\* { ...a, ...b } of two mappings.
Override(a, b) ==
    [k \in (DOMAIN a) \cup (DOMAIN b) |-> IF k \in DOMAIN b THEN b[k] ELSE a[k]]

\* The slip of spreading the command line before the profiles.
mergeDataGivenFirst(intrinsic, implicit, explicit, given) ==
    Override(Override(Override(Spread(intrinsic), Spread(given)),
                      Spread(implicit)), Spread(explicit))

\* return { ...intrinsic, ...implicit, ...explicit, ...given }
mergeData(intrinsic, implicit, explicit, given) ==
    Override(Override(Override(Spread(intrinsic), Spread(implicit)),
                      Spread(explicit)), Spread(given))

MergeKeys == {tHome, tVer}
MergeValues == {TrueValue, StrValue(tX)}

\* Every mapping from some of the keys to the values.
Mappings ==
    UNION {[K -> MergeValues] : K \in SUBSET MergeKeys}

\* intrinsicDefaults and cmdArgs are mappings; each profile's data is a
\* mapping or the null getConfigData returned.
MergeInit ==
    /\ dictionary = <<>>
    /\ sources \in
          [intrinsic : {MapResult(m) : m \in Mappings},
           implicit : {MapResult(m) : m \in Mappings} \cup {NullResult},
           explicit : {MapResult(m) : m \in Mappings} \cup {NullResult},
           given : {MapResult(m) : m \in Mappings}]
    /\ mergedData = EmptyMap
    /\ mergePc = "sources"
    /\ ArgsIdle
    /\ CfgIdle
    /\ InitIdle
    /\ RunIdle
    /\ OtherIdle

\* 6. Merge all data sources
MergeSources ==
    /\ mergePc = "sources"
    /\ mergedData' = mergeData(sources.intrinsic, sources.implicit,
                               sources.explicit, sources.given)
    /\ mergePc' = "merged"
    /\ UNCHANGED <<dictionary, sources, argVars, cfgVars, initVars, runVars, otherVars>>

MergeNext == MergeSources

SpecMerge == MergeInit /\ [][MergeNext]_vars

\* The sources from the strongest to the weakest.
Precedence == <<"given", "explicit", "implicit", "intrinsic">>

Holds(src, k) == ~sources[src].null /\ k \in DOMAIN sources[src].map

\* C5: after the merge, the keys of the result are the keys of all the
\* sources, and each key has the value of the strongest source that holds it
\* (command line, named profile, default profile, intrinsic defaults); a
\* profile source that is null holds no key.
C5_MergePrecedence ==
    mergePc = "merged" =>
        /\ DOMAIN mergedData =
              {k \in MergeKeys : \E i \in 1..4 : Holds(Precedence[i], k)}
        /\ \A k \in DOMAIN mergedData :
              LET i == SetMin({j \in 1..4 : Holds(Precedence[j], k)})
              IN mergedData[k] = sources[Precedence[i]].map[k]

\* C5 witness: the named profile was not found (null), a key is in the three
\* other sources, the command line disagrees with the default profile on it
\* and wins, and another key survives from the intrinsic defaults alone.
C5_Witness ==
    /\ mergePc = "merged"
    /\ sources.explicit.null
    /\ Holds("given", tHome) /\ Holds("implicit", tHome) /\ Holds("intrinsic", tHome)
    /\ sources.given.map[tHome] # sources.implicit.map[tHome]
    /\ mergedData[tHome] = sources.given.map[tHome]
    /\ Holds("intrinsic", tVer) /\ ~Holds("given", tVer) /\ ~Holds("implicit", tVer)
    /\ mergedData[tVer] = sources.intrinsic.map[tVer]

----------------------------------------------------------------------------
(* The configuration file and the documents it may hold *)

\* One key/value pair of a profile's settings object.
Setting(key, value) == [key |-> key, value |-> value]

\* An element of the profiles array: null, or an object with a name and
\* settings (settings: "object" with its entries in order, or "missing").
NullProfile == [t |-> "null", name |-> "", settings |-> "missing", entries |-> <<>>]
Profile(name, entries) ==
    [t |-> "object", name |-> name, settings |-> "object", entries |-> entries]
BareProfile(name) ==
    [t |-> "object", name |-> name, settings |-> "missing", entries |-> <<>>]

\* What JSON.parse gives for the file's text: a syntax error, null, a value
\* that is no object (a number, a string), an object without an array-valued
\* profiles, or an object with the profiles array.
BadJson == [t |-> "syntax error", profiles |-> <<>>]
JsonNull == [t |-> "null", profiles |-> <<>>]
JsonScalar == [t |-> "scalar", profiles |-> <<>>]
JsonNoProfiles == [t |-> "object", profiles |-> <<>>]
JsonProfiles(ps) == [t |-> "profiles", profiles |-> ps]

\* The file: absent (ENOENT), unreadable for another reason, or a text.
FileMissing == [kind |-> "ENOENT", doc |-> <<>>]
FileUnreadable == [kind |-> "EACCES", doc |-> <<>>]
FileWith(doc) == [kind |-> "text", doc |-> doc]

tVx == <<"v", "x">>
tXml == <<"x", "m", "l">>
tBlank == <<" ", " ">>

\* The settings the model's profiles are made of.
SettingPool ==
    { Setting(tDry, TrueValue), Setting(tDry, StrValue(tBlank)),
      Setting(tVer, TrueValue), Setting(tV, StrValue(tV)),
      Setting(tVx, TrueValue), Setting(tZz, StrValue(tX)),
      Setting(tHome, StrValue(tX)), Setting(tHome, StrValue(<<>>)),
      Setting(tModel, StrValue(tRaw)), Setting(tModel, StrValue(tXml)) }

\* Most settings of one profile.
MaxSettings == 2

\* A JSON object has each key once.
DistinctKeys(es) ==
    \A i, j \in 1..Len(es) : es[i].key = es[j].key => i = j

SettingLists == {es \in SeqsUpTo(SettingPool, MaxSettings) : DistinctKeys(es)}

Documents ==
    {BadJson, JsonNull, JsonScalar, JsonNoProfiles, JsonProfiles(<<>>),
     JsonProfiles(<<BareProfile("work")>>)}
    \cup {JsonProfiles(<<Profile("work", es)>>) : es \in SettingLists}
    \cup {JsonProfiles(<<Profile("default", <<>>), Profile("work", es)>>) :
             es \in SettingLists}
    \cup {JsonProfiles(<<Profile("work", es), Profile("work", <<>>)>>) :
             es \in SettingLists}
    \cup {JsonProfiles(<<NullProfile, Profile("work", es)>>) :
             es \in SettingLists}
    \cup {JsonProfiles(<<Profile("work", es), NullProfile>>) :
             es \in SettingLists}

Files == {FileMissing, FileUnreadable} \cup {FileWith(d) : d \in Documents}

ProfileNames == {"default", "work", "default_profile"}

----------------------------------------------------------------------------
(* getConfigData *)

\* The callback of dictionary.find for one payload and one settings key.
AcceptsKey(payload, key) ==
    IF payload.type = "string" THEN payload.text = Dashed(key)
    ELSE IF payload.type = "regexp"
    THEN RegExpMatch(payload, Dashed(key)).matched
         /\ RegExpMatch(payload, Dashed(key)).g1 = key
    ELSE FALSE

\* dictionary.find(...) for one settings key: the index of the first
\* descriptor, from the i-th on, whose payload accepts `--${key}`, or 0.
RECURSIVE FindFrom(_, _, _)
FindFrom(dict, key, i) ==
    IF i > Len(dict) THEN 0
    ELSE IF AcceptsKey(dict[i].payload, key) THEN i
    ELSE FindFrom(dict, key, i + 1)

FindMatchingArg(dict, key) == FindFrom(dict, key, 1)

\* matchingArg.payload.source.match(/\(([^)]+)\)/)[1].split("|")
AcceptedValues(payload) == Split(FirstGroupMatch(Source(payload)).text, "|")

Includes(list, x) == \E i \in 1..Len(list) : list[i] = x

\* The if / else if chain of the loop body, i being the index of matchingArg
\* (0: none): "unknown", "empty", "invalid" (each reported and skipped) or
\* "set".
VerdictWith(dict, setting, i) ==
    IF i = 0 THEN "unknown"
    ELSE IF setting.value.t = "string" /\ IsBlank(setting.value.s) THEN "empty"
    ELSE IF /\ dict[i].payload.type = "regexp"
            /\ Includes(Source(dict[i].payload), "|")
            /\ ~(/\ setting.value.t = "string"
                 /\ Includes(AcceptedValues(dict[i].payload), setting.value.s))
         THEN "invalid"
    ELSE "set"

\* What the loop body does with one setting.
SettingVerdict(dict, setting) ==
    VerdictWith(dict, setting, FindMatchingArg(dict, setting.key))

VerdictEvent(verdict, key) ==
    IF verdict = "unknown" THEN Event("warn", "Ignoring unknown setting", key)
    ELSE IF verdict = "empty" THEN Event("debug", "Ignoring empty", key)
    ELSE Event("warn", "Invalid value", key)

EventsFor(verdict, key) ==
    IF verdict = "set" THEN <<>> ELSE <<VerdictEvent(verdict, key)>>

\* The events the loop reports, in the order of Object.entries(settings).
RECURSIVE SkippedEvents(_, _)
SkippedEvents(dict, entries) ==
    IF entries = <<>> THEN <<>>
    ELSE EventsFor(SettingVerdict(dict, Head(entries)), Head(entries).key)
         \o SkippedEvents(dict, Tail(entries))

\* The settings the loop does not skip, in order.
RECURSIVE SetSettings(_, _)
SetSettings(dict, entries) ==
    IF entries = <<>> THEN <<>>
    ELSE (IF SettingVerdict(dict, Head(entries)) = "set" THEN <<Head(entries)>> ELSE <<>>)
         \o SetSettings(dict, Tail(entries))

\* result[key] = value for each of them in turn (a later assignment to a key
\* replaces an earlier one).
ResultOf(kept) ==
    [k \in {kept[n].key : n \in 1..Len(kept)} |->
        kept[CHOOSE n \in 1..Len(kept) :
                /\ kept[n].key = k
                /\ \A m \in 1..Len(kept) : kept[m].key = k => m <= n].value]

\* The settings up to the first one the loop skips, that one included.
RECURSIVE UpToFirstSkipped(_, _)
UpToFirstSkipped(dict, entries) ==
    IF entries = <<>> THEN <<>>
    ELSE IF SettingVerdict(dict, Head(entries)) # "set" THEN <<Head(entries)>>
    ELSE <<Head(entries)>> \o UpToFirstSkipped(dict, Tail(entries))

\* The slip of leaving the loop at the first skipped setting (break for
\* continue).
FilterSettingsBreak(dict, entries) ==
    [map |-> ResultOf(SetSettings(dict, UpToFirstSkipped(dict, entries))),
     events |-> SkippedEvents(dict, UpToFirstSkipped(dict, entries))]

\* for (const [key, value] of Object.entries(settings)) { ... }: the result
\* object and the events.
FilterSettings(dict, entries) ==
    [map |-> ResultOf(SetSettings(dict, entries)),
     events |-> SkippedEvents(dict, entries)]

Returned(result, events) == [result |-> result, events |-> events]

\* The slip of reporting every caught error, a missing file too, as an error.
CaughtAsError(isFileMissing) ==
    Returned(NullResult,
             <<Event("error", "Error reading configuration file", <<>>)>>)

\* The catch block: warn for a missing file, error for anything else thrown.
Caught(isFileMissing) ==
    Returned(NullResult,
             <<Event(IF isFileMissing THEN "warn" ELSE "error",
                     "Error reading configuration file", <<>>)>>)

\* configData.profiles.find((p) => p.name === profileName): the index found,
\* 0 for undefined, -1 when reading p.name of a null element throws (only an
\* element of type "object" has a string for a name).
RECURSIVE FindProfile(_, _, _)
FindProfile(profiles, profileName, i) ==
    IF i > Len(profiles) THEN 0
    ELSE IF profiles[i].t = "null" THEN -1
    ELSE IF profiles[i].t = "object" /\ profiles[i].name = profileName THEN i
    ELSE FindProfile(profiles, profileName, i + 1)

\* What follows the lookup of the profile, i being what FindProfile gave.
ReadProfileAt(file, profileName, dict, i) ==
    IF i = -1 THEN Caught(FALSE)
    ELSE IF i = 0
    THEN Returned(NullResult,
                  <<Event(IF profileName = "default" THEN "debug" ELSE "warn",
                          "Profile not found", <<>>)>>)
    ELSE Returned(MapResult(FilterSettings(dict, file.doc.profiles[i].entries).map),
                  FilterSettings(dict, file.doc.profiles[i].entries).events)

\* The whole function: the value returned and the events reported.
getConfigData(file, profileName, dict) ==
    IF file.kind = "ENOENT" THEN Caught(TRUE)
    ELSE IF file.kind # "text" THEN Caught(FALSE)
    ELSE IF file.doc.t \in {"syntax error", "null"} THEN Caught(FALSE)
    ELSE IF file.doc.t # "profiles"
    THEN Returned(NullResult,
                  <<Event("error", "Invalid configuration structure", <<>>)>>)
    ELSE ReadProfileAt(file, profileName, dict,
                       FindProfile(file.doc.profiles, profileName, 1))

CfgInit ==
    /\ dictionary \in Dictionaries
    /\ cfgFile \in Files
    /\ cfgProfile = ""
    /\ cfgReturn = NullResult
    /\ cfgEvents = <<>>
    /\ cfgPc = "idle"
    /\ ArgsIdle
    /\ MergeIdle
    /\ InitIdle
    /\ RunIdle
    /\ OtherIdle

\* A call getConfigData(configFilePath, profileName, argsDictionary, $m).
GetConfigData ==
    /\ cfgPc = "idle"
    /\ \E name \in ProfileNames :
          \E r \in {getConfigData(cfgFile, name, dictionary)} :
             /\ cfgProfile' = name
             /\ cfgReturn' = r.result
             /\ cfgEvents' = r.events
    /\ cfgPc' = "done"
    /\ UNCHANGED <<dictionary, cfgFile, argVars, mergeVars, initVars, runVars, otherVars>>

CfgNext == GetConfigData

SpecConfig == CfgInit /\ [][CfgNext]_vars

----------------------------------------------------------------------------
(* What is promised about getConfigData, stated on the document *)

IsProfilesDoc == cfgFile.kind = "text" /\ cfgFile.doc.t = "profiles"

\* The elements of profiles that are profiles named name.
Named(name) ==
    {i \in 1..Len(cfgFile.doc.profiles) :
        cfgFile.doc.profiles[i].t = "object" /\ cfgFile.doc.profiles[i].name = name}

\* The settings of the first profile named cfgProfile, in the file's order.
FoundSettings == cfgFile.doc.profiles[SetMin(Named(cfgProfile))].entries

\* getConfigData returned the filtered settings of a profile.
ReadProfile == cfgPc = "done" /\ ~cfgReturn.null

Reported(message, key) ==
    \E i \in 1..Len(cfgEvents) :
        cfgEvents[i].message = message /\ cfgEvents[i].subject = key

\* The descriptor's value group enumerates literal values.
Enumerates(payload) ==
    /\ payload.type = "regexp"
    /\ payload.hasValue
    /\ \A i \in 1..Len(payload.values) :
          \A j \in 1..Len(payload.values[i]) : payload.values[i][j] \notin Atoms

\* key is the canonical key of the descriptor.
IsCanonicalKeyOf(payload, key) ==
    \/ payload.type = "string" /\ payload.text = Dashed(key)
    \/ ListsAliases(payload) /\ payload.names[1] = key

\* The descriptor knows key: as its literal, as one of its listed aliases, or
\* as a text its alias-free first group can capture whole.
Knows(payload, key) ==
    \/ payload.type = "string" /\ payload.text = Dashed(key)
    \/ ListsAliases(payload) /\ Includes(payload.names, key)
    \/ /\ payload.type = "regexp"
       /\ ~ListsAliases(payload)
       /\ Includes(GroupCaptures(payload.names, key), Len(key))

IsBlankString(value) == value.t = "string" /\ IsBlank(value.s)

\* C6: a setting keyed by the canonical key of a descriptor whose value group
\* enumerates literals is in the result exactly when its value is one of
\* the enumerated literals.
C6_EnumeratedValues ==
    ReadProfile =>
        \A n \in 1..Len(FoundSettings) : \A i \in 1..Len(dictionary) :
            LET e == FoundSettings[n]
                p == dictionary[i].payload
            IN (Enumerates(p) /\ IsCanonicalKeyOf(p, e.key))
                  => (e.key \in DOMAIN cfgReturn.map
                         <=> (e.value.t = "string" /\ Includes(p.values, e.value.s)))

\* C7: a setting keyed by a non-first alias of a descriptor, and by nothing
\* else the dictionary knows, is reported as unknown and is not in the result.
C7_AliasKeyRejected ==
    ReadProfile =>
        \A n \in 1..Len(FoundSettings) :
            LET e == FoundSettings[n]
            IN (/\ \E i \in 1..Len(dictionary) :
                      LET p == dictionary[i].payload
                      IN ListsAliases(p) /\ Includes(Tail(p.names), e.key)
                /\ \A i \in 1..Len(dictionary) :
                      LET p == dictionary[i].payload
                      IN ~IsCanonicalKeyOf(p, e.key)
                         /\ (Knows(p, e.key) => ListsAliases(p)))
                  => /\ e.key \notin DOMAIN cfgReturn.map
                     /\ Reported("Ignoring unknown setting", e.key)

\* C8: a setting keyed by the canonical key of a descriptor that enumerates
\* no values, with a value that is no blank string, is in the result with
\* the same value.
C8_ValidSettingKept ==
    ReadProfile =>
        \A n \in 1..Len(FoundSettings) :
            LET e == FoundSettings[n]
            IN (/\ ~IsBlankString(e.value)
                /\ \E i \in 1..Len(dictionary) :
                      LET p == dictionary[i].payload
                      IN IsCanonicalKeyOf(p, e.key) /\ ~Enumerates(p))
                  => /\ e.key \in DOMAIN cfgReturn.map
                     /\ cfgReturn.map[e.key] = e.value

\* What getConfigData returns for a profile that holds this one setting only.
Alone(e) ==
    getConfigData(FileWith(JsonProfiles(<<Profile(cfgProfile, <<e>>)>>)),
                  cfgProfile, dictionary).result.map

\* The profile is found before the lookup meets a null element.
FoundBeforeNull ==
    /\ IsProfilesDoc
    /\ Named(cfgProfile) # {}
    /\ \A i \in 1..SetMin(Named(cfgProfile)) : cfgFile.doc.profiles[i].t # "null"

NoProfilesArray == ~IsProfilesDoc

\* The lookup meets a null element before any profile named cfgProfile.
NullReached ==
    /\ IsProfilesDoc
    /\ \E i \in 1..Len(cfgFile.doc.profiles) :
          /\ cfgFile.doc.profiles[i].t = "null"
          /\ \A j \in Named(cfgProfile) : i < j

\* C10 as written: null is returned, with a report, exactly when the file
\* cannot be read, is no JSON, has no array-valued profiles or has no
\* profile named profileName; a missing file is a warning, every other read
\* or parse failure an error.
C10_Original ==
    cfgPc = "done" =>
        /\ cfgReturn.null <=> (NoProfilesArray \/ Named(cfgProfile) = {})
        /\ cfgReturn.null => Len(cfgEvents) >= 1
        /\ cfgFile.kind = "ENOENT" => cfgEvents[1].type = "warn"
        /\ (cfgFile.kind = "EACCES"
            \/ (cfgFile.kind = "text" /\ cfgFile.doc.t = "syntax error"))
              => cfgEvents[1].type = "error"

\* C10 amended: there is a fifth case of a null return: a null element of
\* profiles met before a profile named profileName, which is reported as an
\* error; in every other case a mapping is returned.
C10_NullCases ==
    cfgPc = "done" =>
        /\ cfgReturn.null <=>
              (NoProfilesArray \/ Named(cfgProfile) = {} \/ NullReached)
        /\ cfgReturn.null => Len(cfgEvents) = 1
        /\ cfgFile.kind = "ENOENT" => cfgEvents[1].type = "warn"
        /\ ((NoProfilesArray /\ cfgFile.kind # "ENOENT") \/ NullReached)
              => cfgEvents[1].type = "error"
        /\ (IsProfilesDoc /\ Named(cfgProfile) = {} /\ ~NullReached)
              => cfgEvents[1].type \in {"debug", "warn"}

\* C10 witness: the document has the profile asked for behind a null
\* element; null was returned and an error reported.
C10_Witness ==
    /\ cfgPc = "done"
    /\ NullReached
    /\ Named(cfgProfile) # {}
    /\ cfgReturn.null
    /\ cfgEvents[1].type = "error"

----------------------------------------------------------------------------
(* initializeConfig: the templates and what is done to them *)

\* What JSON.parse gives for a template beyond the values of a configuration
\* file: 0, false or "" (falsy), and an array.
JsonFalsy == [t |-> "falsy", profiles |-> <<>>]
JsonArray == [t |-> "array", profiles |-> <<>>]

\* An element of a template's profiles array.  Beyond null ("null") and an
\* object with a string name ("object"): a number ("scalar"), an object
\* without a name ("nameless"), an object whose name is a number other than
\* 0 ("numbered", name holding its digits).  settings: "object", "missing",
\* "null", or "array" (the empty array).
Element(t, name, settings, entries) ==
    [t |-> t, name |-> name, settings |-> settings, entries |-> entries]

\* const defaultConfigStructure = { profiles: [ { name: "default_profile",
\*   settings: { key_1: "default_value_1", key_2: "default_value_2" } } ] }
defaultConfigStructure ==
    JsonProfiles(<<Profile("default_profile",
        <<Setting(<<"k", "e", "y", "_", "1">>,
                  StrValue(<<"d", "e", "f", "a", "u", "l", "t", "_",
                             "v", "a", "l", "u", "e", "_", "1">>)),
          Setting(<<"k", "e", "y", "_", "2">>,
                  StrValue(<<"d", "e", "f", "a", "u", "l", "t", "_",
                             "v", "a", "l", "u", "e", "_", "2">>))>>)>>)

\* The slip of leaving out the test of a falsy parsedTemplate.
ParsedTemplateUntested(template) ==
    IF template.t = "syntax error" THEN defaultConfigStructure ELSE template

\* Step 1: JSON.parse(template), the default structure taking the place of
\* a text that does not parse and of a value that is falsy.
ParsedTemplate(template) ==
    IF template.t \in {"syntax error", "null", "falsy"}
    THEN defaultConfigStructure
    ELSE template

ParseEvents(template) ==
    IF template.t = "syntax error"
    THEN <<Event("warn", "Invalid JSON provided in template", <<>>)>>
    ELSE IF template.t \in {"null", "falsy"}
    THEN <<Event("warn", "Provided template was empty or invalid", <<>>)>>
    ELSE <<>>

\* The negation of the condition of the map callback: name is a string and
\* settings an object that is neither an array nor null.
Conforms(profile) == profile.t = "object" /\ profile.settings = "object"

\* { name: profile.name || "default_profile", settings: profile.settings || {} }
CoerceProfile(profile) ==
    Element(IF profile.t = "numbered" THEN "numbered" ELSE "object",
            IF profile.t \in {"object", "numbered"} THEN profile.name
            ELSE "default_profile",
            IF profile.settings \in {"missing", "null"} THEN "object"
            ELSE profile.settings,
            profile.entries)

\* parsedTemplate.profiles.map(...): reading profile.name of a null element
\* throws a TypeError.
MapThrows(profiles) == \E i \in 1..Len(profiles) : profiles[i].t = "null"

Mapped(profiles) ==
    [i \in 1..Len(profiles) |->
        IF Conforms(profiles[i]) THEN profiles[i] ELSE CoerceProfile(profiles[i])]

\* The warnings of the map callback, up to the element that makes it throw.
RECURSIVE MapWarnings(_)
MapWarnings(profiles) ==
    IF profiles = <<>> THEN <<>>
    ELSE IF Head(profiles).t = "null" THEN <<>>
    ELSE (IF Conforms(Head(profiles)) THEN <<>>
          ELSE <<Event("warn", "Invalid profile detected", <<>>)>>)
         \o MapWarnings(Tail(profiles))

\* parsedTemplate.profiles = defaultConfigStructure.profiles: an object takes
\* the member, an array takes it as a named property, and a number, a string
\* or a boolean ignores the assignment (the module is not in strict mode).
SetProfiles(parsed, profiles) ==
    IF parsed.t \in {"object", "profiles"} THEN JsonProfiles(profiles)
    ELSE IF parsed.t = "array" THEN [parsed EXCEPT !.profiles = profiles]
    ELSE parsed

LacksProfiles(parsed) == parsed.t # "profiles" \/ parsed.profiles = <<>>

\* Step 2, for a template whose map does not throw.
ValidatedTemplate(parsed) ==
    IF LacksProfiles(parsed)
    THEN SetProfiles(parsed, defaultConfigStructure.profiles)
    ELSE JsonProfiles(Mapped(parsed.profiles))

ValidateEvents(parsed) ==
    IF LacksProfiles(parsed)
    THEN <<Event("warn", "Invalid or missing profiles array", <<>>)>>
    ELSE MapWarnings(parsed.profiles)

\* JSON.stringify(parsedTemplate, null, 2), as the value the text parses to:
\* the named properties of an array are not written.
Stringify(parsed) ==
    IF parsed.t = "array" THEN [parsed EXCEPT !.profiles = <<>>] ELSE parsed

----------------------------------------------------------------------------
(* populateTemplate and the file item of ensureSetup *)

\* templateData: an object from placeholder keys to texts, or undefined.
Data(map) == [t |-> "object", map |-> map]
NoData == [t |-> "undefined", map |-> EmptyMap]

\* The first index from `from` on at which the two characters of pair stand,
\* or 0.
RECURSIVE IndexOf(_, _, _)
IndexOf(s, pair, from) ==
    IF from + 1 > Len(s) THEN 0
    ELSE IF s[from] = pair[1] /\ s[from + 1] = pair[2] THEN from
    ELSE IndexOf(s, pair, from + 1)

\* Where the leftmost match of /{{(.*?)}}/ opens and closes in s (0: none).
OpenOf(s) == IndexOf(s, <<"{", "{">>, 1)
CloseOf(s) == IF OpenOf(s) = 0 THEN 0 ELSE IndexOf(s, <<"}", "}">>, OpenOf(s) + 2)

HasPlaceholder(s) == CloseOf(s) # 0

\* The replacer: data[key] when key is in data, the placeholder otherwise.
Replacement(key, data) ==
    IF key \in DOMAIN data.map THEN data.map[key]
    ELSE <<"{", "{">> \o key \o <<"}", "}">>

\* template.replace(/{{(.*?)}}/g, replacer), the match standing at
\* open..close+1.
RECURSIVE ReplaceFrom(_, _, _, _)
ReplaceFrom(template, data, open, close) ==
    IF close = 0 THEN template
    ELSE SubSeq(template, 1, open - 1)
         \o Replacement(SubSeq(template, open + 2, close - 1), data)
         \o ReplaceFrom(SubSeq(template, close + 2, Len(template)), data,
                        OpenOf(SubSeq(template, close + 2, Len(template))),
                        CloseOf(SubSeq(template, close + 2, Len(template))))

populateTemplate(template, data) ==
    ReplaceFrom(template, data, OpenOf(template), CloseOf(template))

\* The warnings of the replacer for one text: one for each placeholder whose
\* key is not in data.
RECURSIVE MissingFrom(_, _, _, _)
MissingFrom(template, data, open, close) ==
    IF close = 0 THEN <<>>
    ELSE (IF SubSeq(template, open + 2, close - 1) \in DOMAIN data.map THEN <<>>
          ELSE <<Event("warn", "Missing data for placeholder",
                       SubSeq(template, open + 2, close - 1))>>)
         \o MissingFrom(SubSeq(template, close + 2, Len(template)), data,
                        OpenOf(SubSeq(template, close + 2, Len(template))),
                        CloseOf(SubSeq(template, close + 2, Len(template))))

\* const $m = monitoringFn || function () {}: what populateTemplate reports
\* reaches monitoringFn ("$m") when one is given, and nobody when the
\* parameter keeps its default ("null").
PopulateEvents(template, data, monitoringFn) ==
    IF monitoringFn = "null" THEN <<>>
    ELSE MissingFrom(template, data, OpenOf(template), CloseOf(template))

\* The same for the texts of a list of settings and of a list of profiles.
RECURSIVE EntryEvents(_, _, _)
EntryEvents(entries, data, monitoringFn) ==
    IF entries = <<>> THEN <<>>
    ELSE (IF Head(entries).value.t = "string"
          THEN PopulateEvents(Head(entries).value.s, data, monitoringFn)
          ELSE <<>>)
         \o EntryEvents(Tail(entries), data, monitoringFn)

RECURSIVE DocumentEvents(_, _, _)
DocumentEvents(profiles, data, monitoringFn) ==
    IF profiles = <<>> THEN <<>>
    ELSE EntryEvents(Head(profiles).entries, data, monitoringFn)
         \o DocumentEvents(Tail(profiles), data, monitoringFn)

\* The texts of a document that carry placeholders are the string values of
\* its settings; populateTemplate applied to each of them.
PopulatedEntries(entries, data) ==
    [j \in 1..Len(entries) |->
        IF entries[j].value.t = "string"
        THEN Setting(entries[j].key, StrValue(populateTemplate(entries[j].value.s, data)))
        ELSE entries[j]]

PopulatedDocument(doc, data) ==
    [t |-> doc.t,
     profiles |-> [i \in 1..Len(doc.profiles) |->
                     Element(doc.profiles[i].t, doc.profiles[i].name,
                             doc.profiles[i].settings,
                             PopulatedEntries(doc.profiles[i].entries, data))]]

\* The replacer runs, and evaluates `key in data`, for some text of doc.
ReplacerRuns(doc) ==
    \E i \in 1..Len(doc.profiles) :
        \E j \in 1..Len(doc.profiles[i].entries) :
            /\ doc.profiles[i].entries[j].value.t = "string"
            /\ HasPlaceholder(doc.profiles[i].entries[j].value.s)

\* What a call leaves and reports, and whether it threw to its caller.
Outcome(dir, file, events) ==
    [dir |-> dir, file |-> file, events |-> events, threw |-> FALSE]

\* The events of making the parent directory: none when it exists.
MkdirEvents(dir) ==
    IF dir = "absent"
    THEN <<Event("info", "Created parent directory for file", <<>>)>>
    ELSE <<>>

\* The slip of appending to the file (appendFileSync for writeFileSync): the
\* text of a file that held a text already is no JSON any more.
ensureSetupAppending(dir, file, doc, data) ==
    IF dir = "uncreatable"
    THEN Outcome(dir, file, <<Event("error", "Error in ensureSetup", <<>>)>>)
    ELSE IF \/ data.t = "undefined" /\ ReplacerRuns(doc)
            \/ dir = "read-only"
    THEN Outcome(IF dir = "absent" THEN "present" ELSE dir, file,
                 MkdirEvents(dir) \o <<Event("error", "Error in ensureSetup", <<>>)>>)
    ELSE Outcome("present",
                 IF file.kind = "text" THEN FileWith(BadJson)
                 ELSE FileWith(PopulatedDocument(doc, data)),
                 MkdirEvents(dir) \o DocumentEvents(doc.profiles, data, "null")
                 \o <<Event("info", "Created file", <<>>)>>)

\* ensureSetup(homeDir, { content: [{ type: "file", ... }] }, $m) for the
\* directory dir ("present", "absent", "uncreatable": mkdirSync throws,
\* "read-only": writeFileSync throws) and the file as it is on disk.  The
\* catch block reports whatever is thrown: by mkdirSync, by `key in data` for
\* data that is undefined, by writeFileSync.
\* populateTemplate(item.template, item.data)
\* is called with two arguments, so its monitoringFn is null.
ensureSetup(dir, file, doc, data) ==
    IF dir = "uncreatable"
    THEN Outcome(dir, file, <<Event("error", "Error in ensureSetup", <<>>)>>)
    ELSE IF \/ data.t = "undefined" /\ ReplacerRuns(doc)
            \/ dir = "read-only"
    THEN Outcome(IF dir = "absent" THEN "present" ELSE dir, file,
                 MkdirEvents(dir) \o <<Event("error", "Error in ensureSetup", <<>>)>>)
    ELSE Outcome("present", FileWith(PopulatedDocument(doc, data)),
                 MkdirEvents(dir) \o DocumentEvents(doc.profiles, data, "null")
                 \o <<Event("info", "Created file", <<>>)>>)

----------------------------------------------------------------------------
(* initializeConfig *)

\* The arguments of a call: the template as JSON.parse sees it, templateData,
\* and whether filePath is a string (path.dirname throws for anything else).
InitCall(template, data, pathIsString) ==
    [template |-> template, data |-> data, pathIsString |-> pathIsString]

\* The slip of throwing the caught error on to the caller.
InitCaughtRethrown(dir, file, events) ==
    [dir |-> dir, file |-> file, threw |-> TRUE,
     events |-> events \o <<Event("error", "Error initializing configuration file", <<>>)>>]

\* The catch block of initializeConfig.
InitCaught(dir, file, events) ==
    Outcome(dir, file,
            events \o <<Event("error", "Error initializing configuration file", <<>>)>>)

\* Steps 1 and 2 done without a throw: the call of ensureSetup, then the
\* info event, whatever ensureSetup met.
WriteTemplate(events, setUp) ==
    Outcome(setUp.dir, setUp.file,
            events \o setUp.events
            \o <<Event("info", "Configuration file created successfully", <<>>)>>)

\* The whole function for a call, the directory and the file as they are:
\* the directory and the file it leaves, and the events it reports.
initializeConfig(call, dir, file) ==
    IF /\ ~LacksProfiles(ParsedTemplate(call.template))
       /\ MapThrows(ParsedTemplate(call.template).profiles)
    THEN InitCaught(dir, file,
                    ParseEvents(call.template)
                    \o MapWarnings(ParsedTemplate(call.template).profiles))
    ELSE IF ~call.pathIsString
    THEN InitCaught(dir, file,
                    ParseEvents(call.template)
                    \o ValidateEvents(ParsedTemplate(call.template)))
    ELSE WriteTemplate(ParseEvents(call.template)
                       \o ValidateEvents(ParsedTemplate(call.template)),
                       ensureSetup(dir, file,
                                   Stringify(ValidatedTemplate(ParsedTemplate(call.template))),
                                   call.data))

----------------------------------------------------------------------------
(* The calls of initializeConfig the model makes, and the disk they meet *)

tU == <<"u">>
\* "{{u}}", "a{{u}}", "{{zz}}" and the unclosed "{{u"
pU == <<"{", "{", "u", "}", "}">>
pAu == <<"a">> \o pU
pZz == <<"{", "{", "z", "z", "}", "}">>
pOpen == <<"{", "{", "u">>

\* Settings with placeholders in their values.
PlaceholderLists ==
    { <<Setting(tHome, StrValue(pU))>>,
      <<Setting(tHome, StrValue(pAu)), Setting(tZz, StrValue(pZz))>>,
      <<Setting(tHome, StrValue(pU \o pZz))>>,
      <<Setting(tZz, StrValue(pOpen)), Setting(tDry, TrueValue)>> }

\* Elements of profiles that are no conforming profile.
OddElements ==
    { NullProfile,
      BareProfile("default"),
      Element("scalar", "", "missing", <<>>),
      Element("nameless", "", "object", <<Setting(tZz, StrValue(tX))>>),
      Element("numbered", "7", "object", <<>>),
      Element("object", "work", "array", <<>>),
      Element("object", "default", "null", <<>>) }

Templates ==
    {BadJson, JsonNull, JsonFalsy, JsonScalar, JsonArray, JsonNoProfiles,
     JsonProfiles(<<>>), JsonProfiles(<<BareProfile("work"), NullProfile>>)}
    \cup {JsonProfiles(<<Profile("work", es)>>) : es \in SettingLists \cup PlaceholderLists}
    \cup {JsonProfiles(<<e, Profile("work", <<Setting(tHome, StrValue(tX))>>)>>) :
             e \in OddElements}
    \cup {JsonProfiles(<<Profile("default", <<Setting(tDry, TrueValue)>>), e>>) :
             e \in OddElements}

TemplateData == {Data([k \in {tU} |-> tX]), Data(EmptyMap), NoData}

InitCalls ==
    {InitCall(t, d, s) : t \in Templates, d \in TemplateData, s \in BOOLEAN}

\* The directory and the file before the first call.
Disk(dir, file) == [dir |-> dir, file |-> file]
Disks ==
    { Disk("present", FileMissing), Disk("present", FileWith(JsonNoProfiles)),
      Disk("absent", FileMissing), Disk("uncreatable", FileMissing),
      Disk("read-only", FileMissing), Disk("read-only", FileWith(JsonNoProfiles)) }

InitDictionaries == { <<dDry, dVer, dHome, dModel>>, <<dVer, dAny>> }

\* Most calls of initializeConfig in a row.
MaxInitCalls == 2

InitInit ==
    /\ dictionary \in InitDictionaries
    /\ initArgs \in InitCalls
    /\ \E disk \in Disks : cfgDir = disk.dir /\ cfgFile = disk.file
    /\ initLog = <<>>
    /\ cfgProfile = ""
    /\ cfgReturn = NullResult
    /\ cfgEvents = <<>>
    /\ cfgPc = "idle"
    /\ ArgsIdle
    /\ MergeIdle
    /\ RunIdle
    /\ OtherIdle

\* A call initializeConfig(filePath, template, templateData, $m), the first
\* or a further one with the same arguments, before the file is read back.
InitializeConfig ==
    /\ cfgPc = "idle"
    /\ Len(initLog) < MaxInitCalls
    /\ \E r \in {initializeConfig(initArgs, cfgDir, cfgFile)} :
          /\ cfgDir' = r.dir
          /\ cfgFile' = r.file
          /\ initLog' = Append(initLog, [file |-> r.file, events |-> r.events,
                                          threw |-> r.threw])
    /\ UNCHANGED <<dictionary, initArgs, cfgProfile, cfgReturn, cfgEvents, cfgPc,
                   argVars, mergeVars, runVars, otherVars>>

\* getConfigData on the file initializeConfig was called for.
ReadBack ==
    /\ initLog # <<>>
    /\ GetConfigData

InitNext == InitializeConfig \/ ReadBack

SpecInit == InitInit /\ [][InitNext]_vars

----------------------------------------------------------------------------
(* What is promised about the default profile and about initializeConfig *)

\* The name of the profile initializeConfig writes by default.
DefaultProfileName == defaultConfigStructure.profiles[1].name

\* The document has an array of profiles, all of them objects, and none of
\* them is named cfgProfile.
ProfileAbsent ==
    /\ IsProfilesDoc
    /\ \A i \in 1..Len(cfgFile.doc.profiles) : cfgFile.doc.profiles[i].t = "object"
    /\ Named(cfgProfile) = {}

\* C11: when the profile asked for is absent from a well-formed document,
\* getConfigData returns null and reports once: at debug severity when the
\* name asked for is the name of the profile initializeConfig writes by
\* default, at warn severity for every other name.
C11_DefaultProfileSeverity ==
    (cfgPc = "done" /\ ProfileAbsent) =>
        /\ cfgReturn.null
        /\ Len(cfgEvents) = 1
        /\ cfgEvents[1].type =
              IF cfgProfile = DefaultProfileName THEN "debug" ELSE "warn"

\* The i-th call of initializeConfig wrote the file.
Persisted(i) ==
    \E n \in 1..Len(initLog[i].events) : initLog[i].events[n].message = "Created file"

\* The file was written by the last call and then read back for the name
\* of one of its profiles.
ReadBackWritten ==
    /\ cfgPc = "done"
    /\ initLog # <<>>
    /\ Persisted(Len(initLog))
    /\ IsProfilesDoc
    /\ Named(cfgProfile) # {}

\* C12: after initializeConfig persisted a document, getConfigData for the
\* name of a written profile returns exactly the settings written for that
\* profile whenever every settings key is the canonical key of a descriptor.
C12_RoundTrip ==
    (/\ ReadBackWritten
     /\ \A j \in 1..Len(FoundSettings) :
           \E i \in 1..Len(dictionary) :
               IsCanonicalKeyOf(dictionary[i].payload, FoundSettings[j].key))
    => /\ ~cfgReturn.null
       /\ DOMAIN cfgReturn.map = {FoundSettings[j].key : j \in 1..Len(FoundSettings)}
       /\ \A j \in 1..Len(FoundSettings) :
             cfgReturn.map[FoundSettings[j].key] = FoundSettings[j].value

\* C13: a further call of initializeConfig with the same path, template and
\* data leaves the file as the first call left it, whether or not the file
\* existed before the first call.
C13_Idempotent ==
    \A i \in 1..Len(initLog) : initLog[i].file = initLog[1].file

\* C13 witness: two calls wrote the file, the second one over the text the
\* first one left, and a placeholder of the template was replaced from the
\* data in both.
C13_Witness ==
    /\ Len(initLog) = 2
    /\ Persisted(1) /\ Persisted(2)
    /\ initLog[1].file.kind = "text"
    /\ initArgs.template.t = "profiles"
    /\ ReplacerRuns(initArgs.template)
    /\ tU \in DOMAIN initArgs.data.map
    /\ initLog[1].file.doc # initArgs.template
    /\ cfgFile = initLog[1].file

\* Some event of the i-th call has the type given.
InitReported(i, type) ==
    \E n \in 1..Len(initLog[i].events) : initLog[i].events[n].type = type

\* Nothing keeps a call from writing: filePath is a string and the directory
\* exists, or can be made, and can be written to.
CanWrite == initArgs.pathIsString /\ cfgDir \notin {"uncreatable", "read-only"}

\* C14: for a template that is no valid JSON, or parses to a falsy value,
\* every call reports a warning and the document it persists is the built-in
\* default document: the one profile "default_profile" with key_1 and key_2.
C14_DefaultDocument ==
    initArgs.template.t \in {"syntax error", "null", "falsy"} =>
        \A i \in 1..Len(initLog) :
            /\ InitReported(i, "warn")
            /\ Persisted(i) => initLog[i].file = FileWith(defaultConfigStructure)
            /\ CanWrite => Persisted(i)

\* C14 witness: the template did not parse, a warning came first and the
\* file now holds the default document.
C14_Witness ==
    /\ initLog # <<>>
    /\ initArgs.template.t = "syntax error"
    /\ initLog[1].events[1].type = "warn"
    /\ Persisted(1)
    /\ cfgFile = FileWith(defaultConfigStructure)
    /\ Len(cfgFile.doc.profiles) = 1
    /\ cfgFile.doc.profiles[1].name = "default_profile"
    /\ Len(cfgFile.doc.profiles[1].entries) = 2

\* C15: whatever the template (no JSON, or JSON of any type), the document a
\* call persists has a profiles member that is a non-empty array.
C15_ProfilesNonEmpty ==
    \A i \in 1..Len(initLog) :
        Persisted(i) =>
            /\ initLog[i].file.kind = "text"
            /\ initLog[i].file.doc.t = "profiles"
            /\ initLog[i].file.doc.profiles # <<>>

\* The profiles of the template as they are persisted when validation leaves
\* them as they are: with their placeholders populated.
PopulatedProfiles ==
    PopulatedDocument(initArgs.template, initArgs.data).profiles

\* C16: in every document a call persists, each entry of profiles has a
\* string for a name and a plain object for settings, and the entries of the
\* template that conform already are written as they are.
C16_ProfilesConform ==
    \A i \in 1..Len(initLog) :
        (Persisted(i) /\ initLog[i].file.doc.t = "profiles") =>
            /\ \A n \in 1..Len(initLog[i].file.doc.profiles) :
                  Conforms(initLog[i].file.doc.profiles[n])
            /\ (initArgs.template.t = "profiles" /\ initArgs.template.profiles # <<>>) =>
                  /\ Len(initLog[i].file.doc.profiles) = Len(initArgs.template.profiles)
                  /\ \A n \in 1..Len(initArgs.template.profiles) :
                        Conforms(initArgs.template.profiles[n]) =>
                            initLog[i].file.doc.profiles[n] = PopulatedProfiles[n]

\* Repairing the template throws: the map meets a null element.
RepairThrows ==
    /\ ~LacksProfiles(ParsedTemplate(initArgs.template))
    /\ MapThrows(ParsedTemplate(initArgs.template).profiles)

----------------------------------------------------------------------------
(* wrapAndRun: the dictionary it builds and the values it works on *)

tHelp == <<"h", "e", "l", "p">>
tInitConfig == <<"i", "n", "i", "t", "_", "c", "o", "n", "f", "i", "g">>
tConfigProfile ==
    <<"c", "o", "n", "f", "i", "g", "_", "p", "r", "o", "f", "i", "l", "e">>
tOutputDir == <<"o", "u", "t", "p", "u", "t", "_", "d", "i", "r">>
tWork == <<"w", "o", "r", "k">>

\* { payload: /^--(help|h)$/, mandatory: false }
dHelp == Descriptor("Help", RegExpPayload(<<tHelp, <<"h">>>>, FALSE, <<>>, TRUE), FALSE)
\* { payload: /^--(init_config|ic)$/, mandatory: false }
dInitConfig ==
    Descriptor("Configuration File Initialization",
               RegExpPayload(<<tInitConfig, <<"i", "c">>>>, FALSE, <<>>, TRUE), FALSE)
\* { payload: /^--(config_profile|cp)=(.+)$/, mandatory: false }
dConfigProfile ==
    Descriptor("Configuration Profile Selection",
               RegExpPayload(<<tConfigProfile, <<"c", "p">>>>, TRUE,
                             <<(<<AtomAny1>>)>>, TRUE), FALSE)
\* { payload: /^--(output_dir|od)=(.+)$/, mandatory: true }
dOutputDir ==
    Descriptor("Output directory",
               RegExpPayload(<<tOutputDir, <<"o", "d">>>>, TRUE,
                             <<(<<AtomAny1>>)>>, TRUE), TRUE)

\* const argsDictionary = [...finalSetupData.argsDictionary] and the pushes
\* that follow, for the flags of the setup.
argsDictionary(flags, userDictionary) ==
    userDictionary
    \o (IF flags.useHelp THEN <<dHelp>> ELSE <<>>)
    \o (IF flags.useConfig THEN <<dInitConfig, dConfigProfile>> ELSE <<>>)
    \o (IF flags.useOutputDir THEN <<dOutputDir>> ELSE <<>>)

\* getArguments(dictionary, null, $m) as one call: the loop from the i-th
\* token on, argValues being what the tokens before it stored.
RECURSIVE ParsedFrom(_, _, _, _)
ParsedFrom(dict, argv, i, values) ==
    IF i > Len(argv) THEN MapResult(values)
    ELSE IF argv[i] = <<>> THEN ParsedFrom(dict, argv, i + 1, values)
    ELSE IF ~ArgLookup(dict, argv[i]).matched THEN NullResult
    ELSE ParsedFrom(dict, argv, i + 1,
                    Put(values, ArgLookup(dict, argv[i]).key,
                        ArgLookup(dict, argv[i]).value))

getArguments(dict, argv) == ParsedFrom(dict, argv, 1, EmptyMap)

\* obj[key] is truthy: present, and true or a string that is not empty.
Truthy(obj, key) ==
    /\ key \in DOMAIN obj
    /\ obj[key].t = "string" => obj[key].s # <<>>

\* The profile name a text of the command line spells ("" for a text that
\* is the name of no profile of the model).
ProfileNamed(text) ==
    IF text = tWork THEN "work"
    ELSE IF text = <<"d", "e", "f", "a", "u", "l", "t">> THEN "default"
    ELSE ""

\* useConfig ? getConfigData(configFilePath, name, argsDictionary, $m) : {}
ProfileData(useConfig, file, name, dict) ==
    IF useConfig THEN getConfigData(file, name, dict)
    ELSE Returned(MapResult(EmptyMap), <<>>)

\* 7. the loop over the descriptors from the i-th on: "missing" with the key
\* of the first mandatory descriptor whose key is not truthy in mergedData,
\* "threw" for a mandatory descriptor whose payload is a string (it has no
\* source to call match on), "ok" at the end of the dictionary.
RECURSIVE MandatoryFrom(_, _, _)
MandatoryFrom(dict, merged, i) ==
    IF i > Len(dict) THEN [kind |-> "ok", key |-> <<>>]
    ELSE IF ~dict[i].mandatory THEN MandatoryFrom(dict, merged, i + 1)
    ELSE IF dict[i].payload.type # "regexp" THEN [kind |-> "threw", key |-> <<>>]
    ELSE IF ~Truthy(merged, Head(Split(FirstGroupMatch(Source(dict[i].payload)).text, "|")))
    THEN [kind |-> "missing",
          key |-> Head(Split(FirstGroupMatch(Source(dict[i].payload)).text, "|"))]
    ELSE MandatoryFrom(dict, merged, i + 1)

\* The promise wrapAndRun returns.
Pending == [state |-> "pending", value |-> 0]
Resolved(value) == [state |-> "resolved", value |-> value]

----------------------------------------------------------------------------
(* wrapAndRun, step by step *)

\* The dictionary of the run.
RunDictionary == argsDictionary(setup, dictionary)

\* The variables a step that only reports and moves on leaves alone.
runRest ==
    <<dictionary, argVars, cfgProfile, cfgReturn, cfgEvents, cfgPc, initArgs, initLog, setup,
      otherVars>>

\* 1. Parse command-line arguments
RunParse ==
    /\ runPc = "1"
    /\ cmdArgs' = getArguments(RunDictionary, args)
    /\ IF cmdArgs'.null
       THEN /\ runEvents' = runEvents
                   \o <<Event("error", "Unknown argument", <<>>),
                        Event("error", "Failed reading program arguments", <<>>)>>
            /\ promise' = Resolved(2)
            /\ runPc' = "returned"
       ELSE /\ runPc' = "2"
            /\ UNCHANGED <<runEvents, promise>>
    /\ UNCHANGED <<runRest, mergeVars, cfgFile, cfgDir, mainFn, mainCalls, lockFile, outputDir>>

\* 2. Handle --help: the help text is printed and the executor returns.
RunHelp ==
    /\ runPc = "2"
    /\ runPc' = IF setup.useHelp /\ Truthy(cmdArgs.map, tHelp) THEN "returned" ELSE "3"
    /\ UNCHANGED <<runRest, mergeVars, cfgFile, cfgDir, cmdArgs, promise, mainFn,
                   mainCalls, runEvents, lockFile, outputDir>>

\* 3. Handle --init_config
RunInitConfig ==
    /\ runPc = "3"
    /\ IF setup.useConfig /\ Truthy(cmdArgs.map, tInitConfig)
       THEN \E r \in {initializeConfig(initArgs, cfgDir, cfgFile)} :
               /\ cfgDir' = r.dir
               /\ cfgFile' = r.file
               /\ initLog' = Append(initLog, [file |-> r.file, events |-> r.events,
                                              threw |-> r.threw])
               /\ runEvents' = runEvents \o r.events
                     \o <<Event("debug", "Configuration file initialized", <<>>)>>
               /\ promise' = Resolved(1)
               /\ runPc' = "returned"
       ELSE /\ runPc' = "4"
            /\ UNCHANGED <<cfgDir, cfgFile, initLog, runEvents, promise>>
    /\ UNCHANGED <<dictionary, argVars, cfgProfile, cfgReturn, cfgEvents, cfgPc, initArgs,
                   setup, mergeVars, cmdArgs, mainFn, mainCalls, lockFile, outputDir,
                   otherVars>>

\* 4. Load default profile, 5. Load specified profile if any, 6. Merge all
\* data sources
RunLoad ==
    /\ runPc = "4"
    /\ \E def \in {ProfileData(setup.useConfig, cfgFile, "default", RunDictionary)} :
       \E spec \in {ProfileData(setup.useConfig /\ Truthy(cmdArgs.map, tConfigProfile),
                                cfgFile,
                                IF Truthy(cmdArgs.map, tConfigProfile)
                                THEN ProfileNamed(cmdArgs.map[tConfigProfile].s)
                                ELSE "",
                                RunDictionary)} :
          /\ sources' = [intrinsic |-> MapResult(setup.intrinsicDefaults),
                         implicit |-> def.result,
                         explicit |-> spec.result,
                         given |-> cmdArgs]
          /\ mergedData' = mergeData(MapResult(setup.intrinsicDefaults), def.result,
                                     spec.result, cmdArgs)
          /\ runEvents' = runEvents \o def.events \o spec.events
    /\ runPc' = "7"
    /\ UNCHANGED <<runRest, mergePc, cfgFile, cfgDir, cmdArgs, promise, mainFn,
                   mainCalls, lockFile, outputDir>>

\* 7. Validate mandatory arguments
RunMandatory ==
    /\ runPc = "7"
    /\ \E check \in {MandatoryFrom(RunDictionary, mergedData, 1)} :
          IF check.kind = "missing"
          THEN /\ runEvents' = Append(runEvents,
                                      Event("error", "Mandatory argument is missing", check.key))
               /\ promise' = Resolved(2)
               /\ runPc' = "returned"
          ELSE /\ runPc' = IF check.kind = "threw" THEN "threw" ELSE "8"
               /\ UNCHANGED <<runEvents, promise>>
    /\ UNCHANGED <<runRest, mergeVars, cfgFile, cfgDir, cmdArgs, mainFn, mainCalls,
                   lockFile, outputDir>>

\* 8. Ensure the output directory is given and valid
RunOutputDir ==
    /\ runPc = "8"
    /\ IF /\ setup.useOutputDir
          /\ \/ ~Truthy(mergedData, tOutputDir)
             \/ mergedData[tOutputDir].t # "string"
             \/ outputDir # "directory"
       THEN /\ runEvents' = Append(runEvents,
                                   Event("error", "Provided output directory is invalid", <<>>))
            /\ promise' = Resolved(2)
            /\ runPc' = "returned"
       ELSE /\ runPc' = "9"
            /\ UNCHANGED <<runEvents, promise>>
    /\ UNCHANGED <<runRest, mergeVars, cfgFile, cfgDir, cmdArgs, mainFn, mainCalls,
                   lockFile, outputDir>>

\* session.js, as the README describes it. The lock is the file
\* operation_in_progress.lock of the target folder: canOpenSession looks for
\* it, openSession places it, closeSession removes it.
canOpenSession(lock) == ~lock
openSession(lock) == TRUE
closeSession(lock) == FALSE

\* finalSetupData.useOutputDir && finalSetupData.useSessionControl
SessionControl(flags) == flags.useOutputDir /\ flags.useSessionControl

\* 9. Check for session control
RunSession ==
    /\ runPc = "9"
    /\ IF SessionControl(setup)
       THEN IF ~canOpenSession(lockFile)
            THEN /\ runEvents' = Append(runEvents,
                                        Event("error", "Session is already active", <<>>))
                 /\ promise' = Resolved(2)
                 /\ runPc' = "returned"
                 /\ UNCHANGED lockFile
            ELSE /\ lockFile' = openSession(lockFile)
                 /\ runPc' = "10"
                 /\ UNCHANGED <<runEvents, promise>>
       ELSE /\ runPc' = "10"
            /\ UNCHANGED <<runEvents, promise, lockFile>>
    /\ UNCHANGED <<runRest, mergeVars, cfgFile, cfgDir, cmdArgs, mainFn, mainCalls, outputDir>>

\* 10. Ensure the output directory structure: ensureSetup reports what it
\* created, or the error of a blueprint without content (the default {}).
RunBlueprint ==
    /\ runPc = "10"
    /\ runEvents' =
          IF ~setup.useOutputDir THEN runEvents
          ELSE IF setup.blueprint = "none"
          THEN Append(runEvents, Event("error", "Error in ensureSetup", <<>>))
          ELSE Append(runEvents, Event("info", "Created folder", <<>>))
    /\ runPc' = "11"
    /\ UNCHANGED <<runRest, mergeVars, cfgFile, cfgDir, cmdArgs, promise, mainFn,
                   mainCalls, lockFile, outputDir>>


\* What the caller's mainFn does when it is called: it returns a value,
\* returns a promise that resolves to one, throws, or returns a promise that
\* rejects; what it throws or rejects with is an Error or undefined
\* (Promise.reject() or throw undefined).
MainFn(how, what, value) == [how |-> how, what |-> what, value |-> value]
MainFns ==
    { MainFn("returns", "value", 0), MainFn("returns", "value", 3),
      MainFn("resolves", "value", 1),
      MainFn("throws", "Error", 0), MainFn("rejects", "Error", 0),
      MainFn("throws", "undefined", 0), MainFn("rejects", "undefined", 0) }

\* try { mainExitVal = await mainFn(...) } catch (error) {...}: the events
\* reported and the value of mainExitVal when the finally block starts, and
\* whether an error leaves the statement. error.message of undefined throws
\* in the catch block before $m is called and before mainExitVal is set.
MainOutcome(fn) ==
    IF fn.what = "value"
    THEN [events |-> <<>>, mainExitVal |-> fn.value, escapes |-> FALSE]
    ELSE IF fn.what = "Error"
    THEN [events |-> <<Event("error", "Error in main function execution", <<>>)>>,
          mainExitVal |-> 2, escapes |-> FALSE]
    ELSE [events |-> <<>>, mainExitVal |-> 0, escapes |-> TRUE]

\* The slip of resolving without closing the session.
FinallyUnclosed(outcome) ==
    /\ runEvents' = runEvents \o outcome.events
    /\ lockFile' = lockFile
    /\ promise' = Resolved(outcome.mainExitVal)
    /\ runPc' = IF outcome.escapes THEN "threw" ELSE "registered"

\* The finally block, and 12. HANDLE CLEANUP ON EXIT when no error left the
\* try statement: the listeners are registered and the executor ends.
Finally(outcome) ==
    /\ runEvents' = runEvents \o outcome.events
    /\ lockFile' = IF SessionControl(setup) THEN closeSession(lockFile) ELSE lockFile
    /\ promise' = Resolved(outcome.mainExitVal)
    /\ runPc' = IF outcome.escapes THEN "threw" ELSE "registered"

\* 11. Execute the main business logic: the call of mainFn. A function that
\* throws is caught at once; otherwise the executor awaits what it returned.
RunMain ==
    /\ runPc = "11"
    /\ mainCalls' = Append(mainCalls, mergedData)
    /\ \E fn \in MainFns :
          /\ mainFn' = fn
          /\ IF fn.how = "throws"
             THEN Finally(MainOutcome(fn))
             ELSE /\ runPc' = "await"
                  /\ UNCHANGED <<runEvents, lockFile, promise>>
    /\ UNCHANGED <<runRest, mergeVars, cfgFile, cfgDir, cmdArgs, outputDir>>

\* 11. the await ends: the value is kept, or the rejection is caught.
RunSettle ==
    /\ runPc = "await"
    /\ Finally(MainOutcome(mainFn))
    /\ UNCHANGED <<runRest, mergeVars, cfgFile, cfgDir, cmdArgs, mainFn, mainCalls, outputDir>>

----------------------------------------------------------------------------
(* The runs of wrapAndRun the model makes *)

MandatoryOf(d) == [d EXCEPT !.mandatory = TRUE]

\* setupData after the merge with the defaults. The session control and the
\* blueprint only matter with useOutputDir.
Setup(help, config, out, session, blueprint, intrinsic) ==
    [useHelp |-> help, useConfig |-> config, useOutputDir |-> out,
     useSessionControl |-> session, blueprint |-> blueprint,
     intrinsicDefaults |-> intrinsic]

IntrinsicDefaults == {EmptyMap, [k \in {tHome} |-> StrValue(<<>>)]}

Setups ==
    {Setup(h, c, FALSE, FALSE, "none", i) :
        h \in BOOLEAN, c \in BOOLEAN, i \in IntrinsicDefaults}
    \cup {Setup(h, c, TRUE, s, b, i) :
             h \in BOOLEAN, c \in BOOLEAN, s \in BOOLEAN,
             b \in {"none", "folders"}, i \in IntrinsicDefaults}

\* The caller's argsDictionary.
RunDictionaries ==
    { <<>>, <<dDry, dHome>>, <<MandatoryOf(dHome)>>, <<MandatoryOf(dDry)>>,
      <<MandatoryOf(dVer), MandatoryOf(dHome)>>,
      <<MandatoryOf(dHome), MandatoryOf(dVer)>> }

RunCommandLines ==
    { <<>>, <<Dashed(tHelp)>>, <<Dashed(<<"h">>)>>,
      <<Dashed(tInitConfig)>>, <<Dashed(<<"i", "c">>)>>,
      <<Dashed(tHelp), Dashed(<<"i", "c">>)>>,
      <<Dashed(tInitConfig), Dashed(<<"h">>)>>,
      <<Assign(<<"c", "p">>, tWork)>>,
      <<Assign(<<"o", "d">>, tX)>>,
      <<Assign(tOutputDir, tX), Assign(tConfigProfile, tWork)>>,
      <<Dashed(tDry)>>, <<Assign(tHome, tX)>>, <<Dashed(tVer)>>,
      <<Assign(tHome, tX), Dashed(tV)>>,
      <<Assign(tHome, tX), Assign(<<"o", "d">>, tX)>>,
      <<Assign(<<"o", "d">>, tX), Dashed(tDry)>>,
      <<Assign(<<"o", "d">>, tX), Dashed(tHelp)>>,
      <<Dashed(tZz)>> }

\* The configuration file in the user's home directory.
RunFiles ==
    { FileMissing,
      FileWith(JsonProfiles(<<Profile("default", <<Setting(tDry, TrueValue)>>),
                              Profile("work", <<Setting(tHome, StrValue(tX))>>)>>)) }

\* configTemplate (the default "" is no JSON) and the appInfo given as data.
RunInitCalls ==
    { InitCall(BadJson, Data([k \in {tU} |-> tX]), TRUE),
      InitCall(JsonProfiles(<<Profile("work", <<Setting(tHome, StrValue(tX))>>)>>),
               Data([k \in {tU} |-> tX]), TRUE) }

RunInit ==
    /\ setup \in Setups
    /\ dictionary \in RunDictionaries
    /\ args \in RunCommandLines
    /\ argIdx = 0
    /\ argValues = EmptyMap
    /\ argPc = "off"
    /\ argEvents = <<>>
    /\ MergeIdle
    /\ cfgFile \in (IF setup.useConfig THEN RunFiles ELSE {FileMissing})
    /\ cfgProfile = ""
    /\ cfgReturn = NullResult
    /\ cfgEvents = <<>>
    /\ cfgPc = "off"
    /\ cfgDir = "present"
    /\ initArgs \in (IF setup.useConfig THEN RunInitCalls
                     ELSE {InitCall(BadJson, Data([k \in {tU} |-> tX]), TRUE)})
    /\ initLog = <<>>
    /\ runPc = "1"
    /\ cmdArgs = NullResult
    /\ promise = Pending
    /\ mainFn = <<>>
    /\ mainCalls = <<>>
    /\ runEvents = <<>>
    /\ lockFile \in (IF setup.useOutputDir /\ setup.useSessionControl
                     THEN BOOLEAN ELSE {FALSE})
    /\ outputDir \in (IF setup.useOutputDir THEN {"missing", "file", "directory"}
                      ELSE {"directory"})
    /\ OtherIdle

RunNext ==
    \/ RunParse
    \/ RunHelp
    \/ RunInitConfig
    \/ RunLoad
    \/ RunMandatory
    \/ RunOutputDir
    \/ RunSession
    \/ RunBlueprint
    \/ RunMain
    \/ RunSettle

SpecRun == RunInit /\ [][RunNext]_vars

\* The executor has ended: it returned, an error left it, or it ran to its
\* last statement.
RunEnded == runPc \in {"returned", "threw", "registered"}


----------------------------------------------------------------------------
(* Claims about wrapAndRun *)

\* The command line was read and asks for the help text, with useHelp.
HelpGiven == ~cmdArgs.null /\ setup.useHelp /\ Truthy(cmdArgs.map, tHelp)

\* The command line was read and asks for the configuration file, with
\* useConfig.
InitConfigGiven == ~cmdArgs.null /\ setup.useConfig /\ Truthy(cmdArgs.map, tInitConfig)

\* C18: once wrapAndRun has ended on a command line that gives --help or --h
\* with useHelp, or --init_config or --ic with useConfig, its promise is
\* resolved to 1 and mainFn was not invoked; with both given, no
\* configuration file was written.
C18_EarlyExit ==
    RunEnded /\ (HelpGiven \/ InitConfigGiven) =>
        /\ promise = Resolved(1)
        /\ mainCalls = <<>>
        /\ HelpGiven => initLog = <<>>


\* The validation of the mandatory descriptors is behind the run: the
\* sources were merged (steps 4 to 6) and step 7 is over.
Validated == DOMAIN sources # {} /\ runPc # "7"

\* The places in the run's dictionary of the mandatory descriptors under
\* whose canonical key the merged settings hold no truthy value.
MissingMandatory ==
    {i \in 1..Len(RunDictionary) :
        /\ RunDictionary[i].mandatory
        /\ ~Truthy(mergedData, CanonicalKey(RunDictionary[i].payload, <<>>))}

\* C19: when, after the merge, some mandatory descriptor (literal or pattern)
\* has no truthy value under its canonical key, wrapAndRun has reported the
\* key of the first such descriptor of the dictionary at error severity as
\* its last event, its promise is resolved to 2 and mainFn was not invoked.
C19_MandatoryValidation ==
    Validated /\ MissingMandatory # {} =>
        /\ promise = Resolved(2)
        /\ mainCalls = <<>>
        /\ runEvents # <<>>
        /\ runEvents[Len(runEvents)] =
              Event("error", "Mandatory argument is missing",
                    CanonicalKey(RunDictionary[SetMin(MissingMandatory)].payload, <<>>))


\* The last event reported is an error about mainFn.
MainErrorReported ==
    /\ runEvents # <<>>
    /\ runEvents[Len(runEvents)] = Event("error", "Error in main function execution", <<>>)

\* C20: once a run that reached mainFn has ended, mainFn was invoked once,
\* with the merged settings; if it returned a value or a promise resolving to
\* one, the promise of wrapAndRun is resolved to that value; if it threw or
\* its promise rejected, the error was reported at error severity and the
\* promise is resolved to 2.
C20_MainResult ==
    RunEnded /\ mainCalls # <<>> =>
        /\ mainCalls = <<mergedData>>
        /\ mainFn.what = "value" => promise = Resolved(mainFn.value)
        /\ mainFn.what # "value" => MainErrorReported /\ promise = Resolved(2)

\* An error was reported by a step before mainFn.
EarlierStepFailed ==
    \E i \in 1..Len(runEvents) :
        /\ runEvents[i].type = "error"
        /\ runEvents[i].message # "Error in main function execution"

\* C21: mainFn is invoked at most once, and only on a run whose command line
\* was read, gave no early-exit argument, left no mandatory key missing, whose
\* output directory (when used) is given and is a directory, and on which no
\* earlier step (the session, the blueprint) reported an error.
C21_MainOnlyAfterSuccess ==
    /\ Len(mainCalls) <= 1
    /\ mainCalls # <<>> =>
          /\ ~cmdArgs.null
          /\ ~HelpGiven
          /\ ~InitConfigGiven
          /\ MissingMandatory = {}
          /\ setup.useOutputDir =>
                Truthy(mergedData, tOutputDir) /\ outputDir = "directory"
          /\ ~EarlierStepFailed

----------------------------------------------------------------------------
(* Processes running wrapAndRun on one output directory, and the signals *)

\* The processes.
Procs == {1, 2}

Signals == {"SIGINT", "SIGTERM"}

\* The three arguments mainFn is called with.
MainArgs == <<"mergedData", "allUtils", "$m">>

\* One process: its setup (session control, a cleanupFn), the statement of
\* the executor it is at, its promise, its mainFn, the events it reported,
\* whether a session it opened is still open, whether the listeners of
\* step 12 are registered, the calls of closeSession its signal handler made
\* and the argument lists its cleanupFn was called with.
Proc(session, cleanup) ==
    [session |-> session, cleanup |-> cleanup, pc |-> "9", promise |-> Pending,
     fn |-> MainFn("none", "value", 0), events |-> <<>>, holds |-> FALSE,
     listeners |-> FALSE, exitCloses |-> 0, cleanupCalls |-> <<>>]

\* The variables the steps of a process leave alone.
sessRest ==
    <<dictionary, argVars, mergeVars, cfgVars, initVars, setup, runPc, cmdArgs, promise,
      mainFn, mainCalls, runEvents, outputDir, rm, helpCall>>

SessInit ==
    /\ procs \in [Procs -> {Proc(s, c) : s \in BOOLEAN, c \in BOOLEAN}]
    /\ dictionary = <<>>
    /\ ArgsIdle
    /\ MergeIdle
    /\ CfgIdle
    /\ InitIdle
    /\ RunIdle
    /\ rm = <<>>
    /\ helpCall = <<>>

\* 9. if (!canOpenSession(outputDir)) { $m(error); resolve(2); return; }
SessCheck(p) ==
    /\ procs[p].pc = "9"
    /\ procs' = [procs EXCEPT ![p] =
          IF ~procs[p].session THEN [@ EXCEPT !.pc = "10"]
          ELSE IF ~canOpenSession(lockFile)
          THEN [@ EXCEPT !.events = Append(@, Event("error", "Session is already active", <<>>)),
                         !.promise = Resolved(2),
                         !.pc = "returned"]
          ELSE [@ EXCEPT !.pc = "open"]]
    /\ UNCHANGED <<sessRest, lockFile>>

\* 9. openSession(outputDir)
SessOpen(p) ==
    /\ procs[p].pc = "open"
    /\ lockFile' = openSession(lockFile)
    /\ procs' = [procs EXCEPT ![p].holds = TRUE, ![p].pc = "10"]
    /\ UNCHANGED sessRest

\* The process after the finally block of step 11 and, when no error left
\* the try statement, after the listeners of step 12 were registered.
AfterFinally(proc, outcome) ==
    [proc EXCEPT !.events = @ \o outcome.events,
                 !.holds = IF proc.session THEN FALSE ELSE @,
                 !.promise = Resolved(outcome.mainExitVal),
                 !.listeners = ~outcome.escapes,
                 !.pc = IF outcome.escapes THEN "threw" ELSE "registered"]

\* 10. and 11. up to the await: the blueprint is set up and mainFn is called.
SessStart(p) ==
    /\ procs[p].pc = "10"
    /\ \E fn \in MainFns :
          IF fn.how = "throws"
          THEN /\ procs' = [procs EXCEPT ![p] = AfterFinally([@ EXCEPT !.fn = fn],
                                                             MainOutcome(fn))]
               /\ lockFile' = IF procs[p].session THEN closeSession(lockFile) ELSE lockFile
          ELSE /\ procs' = [procs EXCEPT ![p].fn = fn, ![p].pc = "await"]
               /\ UNCHANGED lockFile
    /\ UNCHANGED sessRest

\* 11. the await ends; catch, finally and 12.
SessSettle(p) ==
    /\ procs[p].pc = "await"
    /\ procs' = [procs EXCEPT ![p] = AfterFinally(@, MainOutcome(procs[p].fn))]
    /\ lockFile' = IF procs[p].session THEN closeSession(lockFile) ELSE lockFile
    /\ UNCHANGED sessRest

\* function createExitHandler(signalType, context, monitoringFn), called as
\* createExitHandler(signalType, mergedData, allUtils, $m): the arguments
\* the closure hands to onExit.
createExitHandler(given) == <<given[1], given[2], given[3]>>

\* The parameters of onExit = (signalType, inputData, utils, monitoringFn)
\* for the arguments it is called with.
OnExitParams(passed) ==
    [signalType |-> passed[1], inputData |-> passed[2], utils |-> passed[3],
     monitoringFn |-> IF Len(passed) >= 4 THEN passed[4] ELSE "undefined"]

\* onExit: monitoringFn({type: "debug", ...}) is its first statement, and
\* calling what is no function throws; otherwise the session is closed
\* (with session control) and cleanupFn, if provided, is called.
onExit(proc, params, lock) ==
    IF params.monitoringFn # "$m"
    THEN [proc |-> [proc EXCEPT !.pc = "crashed"], lock |-> lock]
    ELSE [proc |-> [proc EXCEPT !.events =
                      @ \o <<Event("debug", "Exiting by signal", <<>>)>>
                        \o (IF proc.session
                            THEN <<Event("debug", "Session control is employed", <<>>)>>
                            ELSE <<>>),
                   !.holds = IF proc.session THEN FALSE ELSE @,
                   !.exitCloses = IF proc.session THEN @ + 1 ELSE @,
                   !.cleanupCalls =
                      IF proc.cleanup
                      THEN Append(@, <<params.inputData, params.utils, params.monitoringFn>>)
                      ELSE @,
                   !.pc = "signalled"],
          lock |-> IF proc.session THEN closeSession(lock) ELSE lock]

\* A signal is delivered to a process that is running: with the listeners
\* of step 12 registered the handler runs; without them the process ends.
SessSignal(p) ==
    /\ procs[p].pc \in {"open", "10", "await", "registered"}
    /\ \E sig \in Signals :
          IF procs[p].listeners
          THEN \E r \in {onExit(procs[p],
                                OnExitParams(createExitHandler(<<sig>> \o MainArgs)),
                                lockFile)} :
                  /\ procs' = [procs EXCEPT ![p] = r.proc]
                  /\ lockFile' = r.lock
          ELSE /\ procs' = [procs EXCEPT ![p].pc = "killed"]
               /\ UNCHANGED lockFile
    /\ UNCHANGED sessRest

SessNext ==
    \E p \in Procs :
        \/ SessCheck(p)
        \/ SessOpen(p)
        \/ SessStart(p)
        \/ SessSettle(p)
        \/ SessSignal(p)

SpecSession == SessInit /\ [][SessNext]_vars

\* C22: for two processes with session control on one output directory, the
\* mainFn of one is never running while the other holds the session it
\* opened, the lock is in place for as long as one of them holds its session,
\* and a process that returned at the session check reported an error as its
\* last event and resolved to 2.
C22_SessionExclusion ==
    \A p, q \in Procs :
        p # q /\ procs[p].session /\ procs[q].session =>
            /\ ~(procs[p].pc = "await" /\ procs[q].holds)
            /\ procs[q].holds => lockFile
            /\ procs[p].pc = "returned" =>
                  /\ procs[p].promise = Resolved(2)
                  /\ procs[p].events = <<Event("error", "Session is already active", <<>>)>>

\* The run opened a session: with session control it went past step 9.
SessionOpened ==
    /\ SessionControl(setup)
    /\ runPc \in {"10", "11", "await", "registered"} \/ mainCalls # <<>>

\* C23: when the promise of a run that opened a session is resolved, the
\* session has been closed: the lock is no longer in place, whether mainFn
\* returned, threw or rejected.
C23_ClosedWhenResolved ==
    SessionOpened /\ promise.state = "resolved" => ~lockFile

\* C23 witness: a run with session control whose mainFn rejected has ended,
\* resolved to 2, with the lock removed.
C23_Witness ==
    /\ RunEnded
    /\ SessionOpened
    /\ mainCalls # <<>>
    /\ mainFn = MainFn("rejects", "Error", 0)
    /\ promise = Resolved(2)
    /\ ~lockFile

\* A signal was delivered to the process after it registered its listeners:
\* its handler ran.
HandlerRan(p) == procs[p].pc \in {"signalled", "crashed"}

\* C24: once the handler of a process has run on SIGINT or SIGTERM, it has
\* closed the session if session control is in use, and has invoked
\* cleanupFn, if provided, once with the three arguments mainFn received.
C24_HandlerCleansUp ==
    \A p \in Procs :
        HandlerRan(p) =>
            /\ procs[p].session => procs[p].exitCloses = 1
            /\ procs[p].cleanup => procs[p].cleanupCalls = <<MainArgs>>

\* A termination signal reached the process: it ended for want of a
\* listener, or its handler ran.
Terminated(p) == procs[p].pc \in {"killed", "signalled", "crashed"}

\* C25: a process that a termination signal reached after it opened a
\* session, also while its mainFn was running, does not hold its session any
\* more: it has closed it.
C25_NoLockLeftBehind ==
    \A p \in Procs : Terminated(p) => ~procs[p].holds

----------------------------------------------------------------------------
(* removeFolderContents *)

\* An entry of the folder: a file name with its extension, or a directory.
Entry(name, ext, isDirectory) == [name |-> name, ext |-> ext, isDirectory |-> isDirectory]

EntryPool ==
    <<Entry("a", "tmp", FALSE), Entry("b", "tmp", FALSE), Entry("c", "log", FALSE),
      Entry("sub", "", TRUE)>>

\* Most entries of the folder.
MaxEntries == 3

\* What the folder may hold: entries of the pool, in the order of readdir.
Folders ==
    {SelectSeq(EntryPool, LAMBDA e : e \in S) :
        S \in {T \in SUBSET {EntryPool[i] : i \in 1..Len(EntryPool)} :
                  Cardinality(T) <= MaxEntries}}

\* The patterns: "" (ignored), "*" and "*.<ext>".
PatternLists ==
    { <<>>, <<"*">>, <<"*.tmp">>, <<"", "*.log">>, <<"*.tmp", "*">> }

\* glob.sync(pattern, { cwd: folderPath }) for the patterns of the model.
GlobSync(pattern, files) ==
    SelectSeq(files, LAMBDA e :
        \/ pattern = "*"
        \/ pattern = "*.tmp" /\ e.ext = "tmp"
        \/ pattern = "*.log" /\ e.ext = "log")

\* filesToDelete.add(match) for each match in turn: a Set keeps the order
\* of insertion and each value once.
RECURSIVE AddAll(_, _)
AddAll(set, matches) ==
    IF matches = <<>> THEN set
    ELSE AddAll(IF \E i \in 1..Len(set) : set[i] = Head(matches)
                THEN set ELSE Append(set, Head(matches)),
                Tail(matches))

\* The loop over patterns.filter(Boolean).
RECURSIVE MatchedFrom(_, _, _)
MatchedFrom(patterns, files, set) ==
    IF patterns = <<>> THEN set
    ELSE IF Head(patterns) = "" THEN MatchedFrom(Tail(patterns), files, set)
    ELSE MatchedFrom(Tail(patterns), files,
                     AddAll(set, GlobSync(Head(patterns), files)))

\* const filesToDelete = new Set() and what fills it.
FilesToDelete(patterns, files) ==
    IF Len(patterns) > 0 THEN MatchedFrom(patterns, files, <<>>)
    ELSE AddAll(<<>>, files)

RmIdleRest ==
    /\ dictionary = <<>>
    /\ ArgsIdle
    /\ MergeIdle
    /\ CfgIdle
    /\ InitIdle
    /\ RunIdle
    /\ procs = <<>>
    /\ helpCall = <<>>

\* One call: the folder and the patterns given, the statement the function
\* is at, filesToDelete, the state of each deletion started ("in flight",
\* "done" or "failed"), deletedPaths and the events.
RmInit ==
    /\ rm \in [folder : Folders, patterns : PatternLists, pc : {"readdir"},
               toDelete : {<<>>}, deletions : {<<>>}, deletedPaths : {<<>>},
               events : {<<>>}]
    /\ RmIdleRest

rmRest ==
    <<dictionary, argVars, mergeVars, cfgVars, initVars, runVars, procs, helpCall>>

\* The catch block: the error is reported and deletedPaths is returned.
RmCaught(call) ==
    [call EXCEPT !.events = Append(@, Event("error", "Error clearing folder", <<>>)),
                 !.pc = "returned"]

\* const files = await fsp.readdir(folderPath), and filesToDelete: the folder
\* is read, or readdir fails (no such folder).
RmReaddir ==
    /\ rm.pc = "readdir"
    /\ \/ rm' = [rm EXCEPT !.toDelete = FilesToDelete(rm.patterns, rm.folder),
                           !.pc = "loop"]
       \/ rm' = RmCaught(rm)
    /\ UNCHANGED rmRest

\* One turn of the loop: await fsp.lstat(filePath), then the deletion is
\* started, the path pushed and reported; or lstat fails (the entry is gone).
RmLstat ==
    /\ rm.pc = "loop"
    /\ Len(rm.deletions) < Len(rm.toDelete)
    /\ \/ rm' = [rm EXCEPT !.deletions = Append(@, "in flight"),
                           !.deletedPaths = Append(@, rm.toDelete[Len(rm.deletions) + 1]),
                           !.events = Append(@, Event("debug", "Deleted",
                                                      rm.toDelete[Len(rm.deletions) + 1].name))]
       \/ rm' = RmCaught(rm)
    /\ UNCHANGED rmRest

\* The loop ends: await Promise.all(deletionPromises) begins.
RmLoopEnd ==
    /\ rm.pc = "loop"
    /\ Len(rm.deletions) = Len(rm.toDelete)
    /\ rm' = [rm EXCEPT !.pc = "all"]
    /\ UNCHANGED rmRest

\* A deletion that was started ends, whatever the function is doing: fsp.rm
\* or fsp.unlink succeeds or fails.
RmDeletionEnds ==
    /\ \E i \in 1..Len(rm.deletions) :
          /\ rm.deletions[i] = "in flight"
          /\ \E end \in {"done", "failed"} :
                rm' = [rm EXCEPT !.deletions[i] = end]
    /\ UNCHANGED rmRest

\* Promise.all(deletionPromises): rejected as soon as one of the promises
\* is rejected, fulfilled when all are fulfilled.
PromiseAll(deletions) ==
    IF \E i \in 1..Len(deletions) : deletions[i] = "failed" THEN "rejected"
    ELSE IF \A i \in 1..Len(deletions) : deletions[i] = "done" THEN "fulfilled"
    ELSE "pending"

\* await Promise.all(deletionPromises) ends: the last debug event, or the
\* catch block.
RmAwaited ==
    /\ rm.pc = "all"
    /\ \/ /\ PromiseAll(rm.deletions) = "fulfilled"
          /\ rm' = [rm EXCEPT !.events = Append(@, Event("debug", "Done clearing", <<>>)),
                              !.pc = "returned"]
       \/ /\ PromiseAll(rm.deletions) = "rejected"
          /\ rm' = RmCaught(rm)
    /\ UNCHANGED rmRest

RmNext ==
    \/ RmReaddir
    \/ RmLstat
    \/ RmLoopEnd
    \/ RmDeletionEnds
    \/ RmAwaited

SpecRemove == RmInit /\ [][RmNext]_vars

\* The errors reported.
RmErrors == SelectSeq(rm.events, LAMBDA e : e.type = "error")

\* C26: when removeFolderContents has returned, no deletion it started is
\* still in flight, and if one of them failed the failure was reported as
\* one error.
C26_AllDeletionsFinished ==
    rm.pc = "returned" =>
        /\ \A i \in 1..Len(rm.deletions) : rm.deletions[i] # "in flight"
        /\ (\E i \in 1..Len(rm.deletions) : rm.deletions[i] = "failed") =>
              Len(RmErrors) = 1

----------------------------------------------------------------------------
(* getHelp *)

\* A payload that is neither a string nor a RegExp (a number, undefined).
OtherPayload(type) ==
    [type |-> type, text |-> <<>>, names |-> <<>>, hasValue |-> FALSE,
     values |-> <<>>, anchored |-> FALSE]

\* { name: "Count", payload: 5 } and { name: "Bare" }
dNumber == Descriptor("Count", OtherPayload("number"), FALSE)
dBare == Descriptor("Bare", OtherPayload("undefined"), FALSE)

\* An element of the dictionary that is null instead of an object (it has
\* no name, payload or doc to destructure).
NullDescriptor == Descriptor("", OtherPayload("null element"), FALSE)

\* Array.prototype.join(sep) for a separator of several characters.
RECURSIVE JoinText(_, _)
JoinText(parts, sep) ==
    IF parts = <<>> THEN <<>>
    ELSE IF Len(parts) = 1 THEN parts[1]
    ELSE parts[1] \o sep \o JoinText(Tail(parts), sep)

\* src.match(/\(([^)]+)\)/g): the texts of all the groups, left to right.
RECURSIVE GroupTexts(_)
GroupTexts(src) ==
    IF ~FirstGroupMatch(src).found THEN <<>>
    ELSE <<FirstGroupMatch(src).text>> \o GroupTexts(Drop(src, FirstGroupMatch(src).end))

\* valueMatch[1].includes("|")
IncludesBar(s) == \E i \in 1..Len(s) : s[i] = "|"

\* formattedPayload for a RegExp payload with the groups its source shows:
\* "--" and the aliases joined by " or --", with "=..." for a second group;
\* payload.toString() when the source shows no group.
FormattedPattern(src, groups) ==
    IF groups = <<>> THEN <<"/">> \o src \o <<"/">>
    ELSE <<"-", "-">> \o JoinText(Split(groups[1], "|"), <<" ", "o", "r", " ", "-", "-">>)
         \o (IF Len(groups) > 1 THEN <<"=", ".", ".", ".">> ELSE <<>>)

\* acceptedValues and its line: the second group, when it lists values.
AcceptedLine(groups) ==
    IF Len(groups) > 1 /\ IncludesBar(groups[2])
    THEN <<"Accepted values: ">> \o JoinText(Split(groups[2], "|"), <<",", " ">>) \o <<"\n">>
    ELSE <<>>

\* What one descriptor adds to helpString. The name and the doc stand in the
\* text as one symbol each, as do the labels.
HelpBlock(d) ==
    (IF d.payload.type = "string" THEN d.payload.text
     ELSE FormattedPattern(Source(d.payload), GroupTexts(Source(d.payload))))
    \o <<"\n", "Name: ", d.name, "\n", "Details: ", "doc", "\n">>
    \o (IF d.payload.type = "string" THEN <<>>
        ELSE AcceptedLine(GroupTexts(Source(d.payload))))
    \o <<"Form: ">>
    \o (IF d.payload.type = "string" THEN d.payload.text
        ELSE <<"/">> \o Source(d.payload) \o <<"/">>)
    \o <<"\n", "\n">>

WhiteSpace == {" ", "\n"}

\* String.prototype.trim()
RECURSIVE TrimStart(_)
TrimStart(s) ==
    IF s # <<>> /\ Head(s) \in WhiteSpace THEN TrimStart(Tail(s)) ELSE s

RECURSIVE TrimEnd(_)
TrimEnd(s) ==
    IF s # <<>> /\ s[Len(s)] \in WhiteSpace THEN TrimEnd(SubSeq(s, 1, Len(s) - 1)) ELSE s

Trim(s) == TrimEnd(TrimStart(s))

\* What getHelp gives: the text returned and the events.
Help(text, events) == [text |-> Trim(text), events |-> events, threw |-> FALSE]

\* The catch block around the loop: the error is reported, and what the
\* loop had added to helpString before is returned.
HelpCaught(helpString, events) ==
    Help(helpString, Append(events, Event("error", "Error generating help string", <<>>)))

\* The loop from the i-th element on.
RECURSIVE HelpFrom(_, _, _, _)
HelpFrom(dict, i, helpString, events) ==
    IF i > Len(dict) THEN Help(helpString, events)
    ELSE IF dict[i].payload.type = "null element" THEN HelpCaught(helpString, events)
    ELSE IF dict[i].payload.type \in {"string", "regexp"}
    THEN HelpFrom(dict, i + 1, helpString \o HelpBlock(dict[i]), events)
    ELSE HelpFrom(dict, i + 1, helpString,
                  Append(events, Event("error", "Invalid payload type for argument",
                                       dict[i].name)))

getHelp(dict) == HelpFrom(dict, 1, <<>>, <<>>)

\* The descriptors the dictionaries given to getHelp are made of.
HelpPool == {dDry, dVer, dModel, dHome, dNumber, dBare, NullDescriptor}

\* Longest dictionary given to getHelp.
MaxHelp == 3

HelpInit ==
    /\ dictionary \in SeqsUpTo(HelpPool, MaxHelp)
    /\ helpCall = [pc |-> "idle", text |-> <<>>, events |-> <<>>, threw |-> FALSE]
    /\ ArgsIdle
    /\ MergeIdle
    /\ CfgIdle
    /\ InitIdle
    /\ RunIdle
    /\ procs = <<>>
    /\ rm = <<>>

\* One call of getHelp(dictionary, $m).
GetHelp ==
    /\ helpCall.pc = "idle"
    /\ \E r \in {getHelp(dictionary)} :
          helpCall' = [pc |-> "done", text |-> r.text, events |-> r.events,
                       threw |-> r.threw]
    /\ UNCHANGED <<dictionary, argVars, mergeVars, cfgVars, initVars, runVars, procs, rm>>

HelpNext == GetHelp

SpecHelp == HelpInit /\ [][HelpNext]_vars

\* The descriptors of the dictionary whose payload is a string or a pattern.
Renderable == SelectSeq(dictionary, LAMBDA d : d.payload.type \in {"string", "regexp"})

\* The descriptors of the dictionary with a payload of another type.
Unrenderable ==
    SelectSeq(dictionary, LAMBDA d : d.payload.type \in {"number", "undefined"})

\* The symbols that follow the label in the text, in the order of the text.
After(label, text) ==
    [i \in 1..Len(SelectSeq([j \in 1..Len(text) |-> j], LAMBDA j : text[j] = label)) |->
        text[SelectSeq([j \in 1..Len(text) |-> j], LAMBDA j : text[j] = label)[i] + 1]]

\* C27: getHelp never throws; the text it returns holds one block for each
\* descriptor with a string or pattern payload, in the order of the
\* dictionary, whatever else stands in the dictionary; and one error is
\* reported for each descriptor with a payload of another type, which adds
\* no block.
C27_BestEffortHelp ==
    helpCall.pc = "done" =>
        /\ ~helpCall.threw
        /\ After("Name: ", helpCall.text) = [i \in 1..Len(Renderable) |-> Renderable[i].name]
        /\ Len(After("Form: ", helpCall.text)) = Len(Renderable)
        /\ \A i \in 1..Len(Unrenderable) :
              \E j \in 1..Len(helpCall.events) :
                  helpCall.events[j] = Event("error", "Invalid payload type for argument",
                                             Unrenderable[i].name)


----------------------------------------------------------------------------
(* What is promised about placeholders, success reports and settling *)

\* "{{key}}"
PlaceholderOf(key) == <<"{", "{">> \o key \o <<"}", "}">>

\* The text pat stands somewhere in the text s.
Occurs(pat, s) ==
    \E k \in 1..(Len(s) - Len(pat) + 1) : SubSeq(s, k, k + Len(pat) - 1) = pat

\* The keys the placeholders of the templates name.
PlaceholderKeys == {tU, tZz}

\* The template is a document of conforming profiles, which is serialized as
\* it was given.
TemplateKept ==
    /\ initArgs.template.t = "profiles"
    /\ initArgs.template.profiles # <<>>
    /\ \A p \in 1..Len(initArgs.template.profiles) : Conforms(initArgs.template.profiles[p])

\* C28: in the file a call of initializeConfig persists, a placeholder whose
\* key is in templateData is replaced by its value; a placeholder whose key
\* is absent stands in the file as it stood in the template, and the call
\* reports a warning for it.
C28_PlaceholdersReported ==
    \A i \in 1..Len(initLog) :
        (Persisted(i) /\ TemplateKept) =>
            \A p \in 1..Len(initArgs.template.profiles) :
                \A j \in 1..Len(initArgs.template.profiles[p].entries) :
                    \A key \in PlaceholderKeys :
                        (/\ initArgs.template.profiles[p].entries[j].value.t = "string"
                         /\ Occurs(PlaceholderOf(key),
                                   initArgs.template.profiles[p].entries[j].value.s))
                        => IF key \in DOMAIN initArgs.data.map
                           THEN /\ ~Occurs(PlaceholderOf(key),
                                           initLog[i].file.doc.profiles[p].entries[j].value.s)
                                /\ Occurs(initArgs.data.map[key],
                                          initLog[i].file.doc.profiles[p].entries[j].value.s)
                           ELSE /\ Occurs(PlaceholderOf(key),
                                          initLog[i].file.doc.profiles[p].entries[j].value.s)
                                /\ \E n \in 1..Len(initLog[i].events) :
                                      initLog[i].events[n] =
                                          Event("warn", "Missing data for placeholder", key)


\* The i-th call of initializeConfig reported its success.
Succeeded(i) ==
    \E n \in 1..Len(initLog[i].events) :
        initLog[i].events[n] = Event("info", "Configuration file created successfully", <<>>)

\* C30: a call of initializeConfig reports "created successfully" only when
\* it wrote the file; when the parent directory cannot be made or the file
\* cannot be written, the call reports an error and no success.
C30_SuccessOnlyWhenWritten ==
    \A i \in 1..Len(initLog) :
        /\ Succeeded(i) => (Persisted(i) /\ initLog[i].file.kind = "text")
        /\ cfgDir \in {"uncreatable", "read-only"} =>
              (InitReported(i, "error") /\ ~Succeeded(i))


\* C29: whenever the executor of wrapAndRun has ended, the promise it
\* returned is settled with a documented value: 1 or 2 without a call of
\* mainFn, and with one 0, 1, 2 or the value mainFn gave.
C29_PromiseSettles ==
    RunEnded =>
        /\ promise.state = "resolved"
        /\ IF mainCalls = <<>> THEN promise.value \in {1, 2}
           ELSE promise.value \in {0, 1, 2} \/ promise.value = mainFn.value

====
